---- MODULE Spec2Model ----
(***************************************************************************)
(* small_business: the in-memory StorageRegistry with its JSON/JSONL files *)
(* and the workflow functions accept_quote_to_job and                      *)
(* complete_job_to_invoice.                                                *)
(*                                                                         *)
(* A date is a day number: day 1 is 2025-06-29, day 2 is 2025-06-30, day 3 *)
(* is 2025-07-01, ...; the financial year changes between day 2 and day 3. *)
(* None (an unset optional field) is 0.  A missing file and an empty file  *)
(* are both the empty sequence of lines.                                   *)
(***************************************************************************)
EXTENDS Integers, Sequences, FiniteSets, TLC

VARIABLES
  today,            \* date.today()
  clients_file,     \* clients/clients.jsonl: sequence of lines
  txn_files,        \* financial year -> lines of <fy>/transactions.jsonl
  quote_files,      \* <<fy, quote_id, version>> -> content of <fy>/quotes/<id>_v<version>.json
  invoice_files,    \* <<fy, invoice_id, version>> -> content of the invoice file
  job_files,        \* <<fy, job_id, version>> -> content of the job file
  settings_file,    \* content of settings.json, or NoneStr
  config_settings_file, \* content of config/settings.json, or NoneStr
  rules_file,       \* the rules YAML file: the list of ClassificationRule it holds
  clients,          \* StorageRegistry._clients: ordered dict, <<normalized_id, Client>> pairs
  transactions,     \* StorageRegistry._transactions: ordered dict, <<(id, date), Transaction>> pairs
  quotes,           \* StorageRegistry._quotes: (id, version) -> reference to a Quote object
  invoices,         \* StorageRegistry._invoices
  jobs,             \* StorageRegistry._jobs
  latest_quotes,    \* StorageRegistry._latest_quotes: id -> version
  latest_invoices,  \* StorageRegistry._latest_invoices
  latest_jobs,      \* StorageRegistry._latest_jobs
  settings,         \* StorageRegistry._settings, or NoneStr
  heap,             \* reference -> the Quote / Invoice / Job object it denotes
  handles,          \* the caller's variable: class of its object -> reference (NoRef for the others)
  history,          \* <<kind, id, n>> -> the value the n-th save of that id was given
  pc,               \* position inside a workflow function (at "idle" between calls) and its locals
  last              \* the last call: its name, its outcome ("ok" or the exception raised)
                    \* and the number of JSONL lines its compaction dropped

disk == <<clients_file, txn_files, quote_files, invoice_files, job_files, settings_file, config_settings_file,
         rules_file>>
memory == <<clients, transactions, quotes, invoices, jobs,
            latest_quotes, latest_invoices, latest_jobs, settings>>
vars == <<today, disk, memory, heap, handles, history, pc, last>>

-----------------------------------------------------------------------------
(* Bounds *)

MaxDay == 3          \* today runs over 1..MaxDay
MaxLines == 3        \* lines appended to the JSONL files by save/update calls
MaxVersionFiles == 2 \* version files written by save_quote / save_invoice / save_job

None == 0            \* an optional date or reference that is not set
NoneStr == "None"    \* an optional string that is not set
Dates == 1..MaxDay

-----------------------------------------------------------------------------
(* Dates and financial years *)

Calendar(d) ==
  [year |-> 2025,
   month |-> IF d <= 2 THEN 6 ELSE 7,
   day |-> IF d <= 2 THEN 28 + d ELSE d - 2]

\* "YYYY-YY" as the pair <<YYYY, YY>>
get_financial_year(d) ==
  IF Calendar(d).month >= 7
    THEN <<Calendar(d).year, (Calendar(d).year + 1) % 100>>
    ELSE <<Calendar(d).year - 1, Calendar(d).year % 100>>

\* every <data_dir>/YYYY-YY directory a date of the model can name
FYs == {get_financial_year(d) : d \in 1..(2 * MaxDay + 1)}

\* sorted(...) of directory names: "2024-25" < "2025-26"
RECURSIVE SortFYs(_)
SortFYs(S) ==
  IF S = {} THEN <<>>
  ELSE LET m == CHOOSE x \in S : \A y \in S : x[1] <= y[1]
       IN <<m>> \o SortFYs(S \ {m})

_get_all_fy_dirs == SortFYs(FYs)

-----------------------------------------------------------------------------
(* Python dict, which keeps insertion order: a sequence of <<key, value>> *)

DictHas(d, k) == \E i \in DOMAIN d : d[i][1] = k
DictGet(d, k) == d[CHOOSE i \in DOMAIN d : d[i][1] = k][2]
DictSet(d, k, v) ==
  IF DictHas(d, k)
    THEN [i \in DOMAIN d |-> IF d[i][1] = k THEN <<k, v>> ELSE d[i]]
    ELSE Append(d, <<k, v>>)
DictDel(d, k) == SelectSeq(d, LAMBDA e : e[1] # k)
DictValues(d) == [i \in DOMAIN d |-> d[i][2]]
DictKeys(d) == {d[i][1] : i \in DOMAIN d}

RECURSIVE DictUpdate(_, _)
DictUpdate(d, e) ==
  IF e = <<>> THEN d
  ELSE DictUpdate(DictSet(d, Head(e)[1], Head(e)[2]), Tail(e))

Range(f) == {f[x] : x \in DOMAIN f}
Restrict(f, S) == [x \in DOMAIN f \cap S |-> f[x]]
Put(f, k, v) == [x \in DOMAIN f \cup {k} |-> IF x = k THEN v ELSE f[x]]
Empty == [x \in {} |-> None]

-----------------------------------------------------------------------------
(* Client *)

\* A str is the tuple of its characters; "sz" is the letter U+00DF, whose
\* lower case is itself and whose upper case is the two letters "SS".
\* str.lower(), character by character
lower_char(c) ==
  IF c = "A" THEN "a" ELSE IF c = "B" THEN "b" ELSE IF c = "S" THEN "s" ELSE c

lower(s) == [i \in DOMAIN s |-> lower_char(s[i])]

\* str.upper(): the upper case of one character may be several characters
upper_char(c) ==
  IF c = "a" THEN <<"A">> ELSE IF c = "b" THEN <<"B">> ELSE IF c = "s" THEN <<"S">>
  ELSE IF c = "sz" THEN <<"S", "S">> ELSE <<c>>

RECURSIVE upper(_)
upper(s) == IF s = <<>> THEN <<>> ELSE upper_char(Head(s)) \o upper(Tail(s))

\* the client ids a caller gives: two that differ by case only, and one whose
\* upper case is not one character for each of its own
ClientIds == {<<"A", "b">>, <<"a", "b">>, <<"sz">>}
ClientNames == {"n1", "n2"}
Client == [client_id : ClientIds, name : ClientNames]

\* Client.model_dump_json / Client.model_validate_json: a Client has no
\* computed field, the line holds the fields
client_dump_json(c) == [client_id |-> c.client_id, name |-> c.name]
client_validate_json(line) == [client_id |-> line.client_id, name |-> line.name]

\* the loop of _load_clients, were the first line of a key the one kept
RECURSIVE read_clients_first(_, _)
read_clients_first(lines, clients_dict) ==
  IF lines = <<>> THEN clients_dict
  ELSE LET client == client_validate_json(Head(lines))
       IN read_clients_first(
            Tail(lines),
            IF DictHas(clients_dict, lower(client.client_id)) THEN clients_dict
            ELSE DictSet(clients_dict, lower(client.client_id), client))

RECURSIVE read_clients(_, _)
read_clients(lines, clients_dict) ==
  IF lines = <<>> THEN clients_dict
  ELSE LET client == client_validate_json(Head(lines))
       IN read_clients(Tail(lines), DictSet(clients_dict, lower(client.client_id), client))

\* the file _compact_clients leaves for the in-memory dict cs
_compact_clients(cs) ==
  [i \in DOMAIN cs |-> client_dump_json(cs[i][2])]

\* _load_clients: <<the new _clients, the new file>> from the old ones
_load_clients(cs, file) ==
  IF file = <<>> THEN <<cs, file>>
  ELSE LET loaded == read_clients(file, <<>>)
       IN <<loaded, _compact_clients(loaded)>>

get_client(client_id) ==
  IF ~DictHas(clients, lower(client_id)) THEN "KeyError"
  ELSE DictGet(clients, lower(client_id))

client_exists(client_id) == DictHas(clients, lower(client_id))

get_all_clients == DictValues(clients)

-----------------------------------------------------------------------------
(* Transaction *)

TxnIds == {"T1", "T2"}
TxnDates == {2, 3}
Descriptions == {<<"d1">>, <<"d2">>}

\* one balanced pair of JournalEntry: debit 100 / credit 100
Entries ==
  <<[account_code |-> "EXP", debit |-> 100, credit |-> 0],
    [account_code |-> "BANK", debit |-> 0, credit |-> 100]>>

\* the import traceability fields of a Transaction built without them (an absent
\* description is <<>>, an absent amount is <<>>, a given amount is <<amount>>)
import_metadata_unset ==
  [import_source |-> NoneStr, import_file |-> NoneStr, import_date |-> None,
   import_line_number |-> None, import_match_date |-> None,
   import_match_description |-> <<>>, import_match_amount |-> <<>>,
   import_match_account |-> NoneStr]

\* Transaction(transaction_id, date, description, entries): the fields given, the
\* others at their defaults
new_transaction(transaction_id, date, description, entries) ==
  [transaction_id |-> transaction_id, date |-> date, description |-> description,
   entries |-> entries, receipt_path |-> NoneStr, gst_inclusive |-> FALSE, notes |-> "",
   import_source |-> import_metadata_unset.import_source,
   import_file |-> import_metadata_unset.import_file,
   import_date |-> import_metadata_unset.import_date,
   import_line_number |-> import_metadata_unset.import_line_number,
   import_match_date |-> import_metadata_unset.import_match_date,
   import_match_description |-> import_metadata_unset.import_match_description,
   import_match_amount |-> import_metadata_unset.import_match_amount,
   import_match_account |-> import_metadata_unset.import_match_account]

\* the transactions a caller constructs
Transaction ==
  {new_transaction(transaction_id, date, description, Entries) :
     transaction_id \in TxnIds, date \in TxnDates, description \in Descriptions}

RECURSIVE SumDebit(_)
SumDebit(es) == IF es = <<>> THEN 0 ELSE Head(es).debit + SumDebit(Tail(es))

\* Transaction.model_dump_json: the fields and the computed fields
txn_dump_json(t) ==
  [transaction_id |-> t.transaction_id, date |-> t.date, description |-> t.description,
   entries |-> t.entries, receipt_path |-> t.receipt_path,
   gst_inclusive |-> t.gst_inclusive, notes |-> t.notes,
   import_source |-> t.import_source, import_file |-> t.import_file,
   import_date |-> t.import_date, import_line_number |-> t.import_line_number,
   import_match_date |-> t.import_match_date,
   import_match_description |-> t.import_match_description,
   import_match_amount |-> t.import_match_amount,
   import_match_account |-> t.import_match_account,
   financial_year |-> get_financial_year(t.date), amount |-> SumDebit(t.entries)]

\* Transaction.model_validate_json: the computed fields of the line are dropped
txn_validate_json(line) ==
  [transaction_id |-> line.transaction_id, date |-> line.date,
   description |-> line.description, entries |-> line.entries,
   receipt_path |-> line.receipt_path, gst_inclusive |-> line.gst_inclusive,
   notes |-> line.notes, import_source |-> line.import_source,
   import_file |-> line.import_file, import_date |-> line.import_date,
   import_line_number |-> line.import_line_number,
   import_match_date |-> line.import_match_date,
   import_match_description |-> line.import_match_description,
   import_match_amount |-> line.import_match_amount,
   import_match_account |-> line.import_match_account]

txn_key(t) == <<t.transaction_id, t.date>>

RECURSIVE read_transactions(_, _)
read_transactions(lines, txns_for_year) ==
  IF lines = <<>> THEN txns_for_year
  ELSE LET txn == txn_validate_json(Head(lines))
       IN read_transactions(Tail(lines), DictSet(txns_for_year, txn_key(txn), txn))

\* the lines _compact_transactions_for_file writes for a list of transactions
\* (no line: the file is removed)
_compact_transactions_for_file(txns) ==
  [i \in DOMAIN txns |-> txn_dump_json(txns[i])]

\* _load_transactions over the sorted year directories dirs:
\* <<the new _transactions, the new files>>
RECURSIVE _load_transactions(_, _, _)
_load_transactions(dirs, txns, files) ==
  IF dirs = <<>> THEN <<txns, files>>
  ELSE LET fy == Head(dirs) IN
       IF files[fy] = <<>> THEN _load_transactions(Tail(dirs), txns, files)
       ELSE LET txns_for_year == read_transactions(files[fy], <<>>)
            IN _load_transactions(
                 Tail(dirs),
                 DictUpdate(txns, txns_for_year),
                 [files EXCEPT ![fy] = _compact_transactions_for_file(DictValues(txns_for_year))])

_get_transaction_file(d) == get_financial_year(d)

get_transaction(transaction_id, d) ==
  IF ~DictHas(transactions, <<transaction_id, d>>) THEN "KeyError"
  ELSE DictGet(transactions, <<transaction_id, d>>)

transaction_exists(transaction_id, d) == DictHas(transactions, <<transaction_id, d>>)

get_all_transactions == DictValues(transactions)

\* the lines now on disk in the JSONL files
RECURSIVE CountLines(_, _)
CountLines(files, S) ==
  IF S = {} THEN 0
  ELSE LET fy == CHOOSE x \in S : TRUE
       IN Len(files[fy]) + CountLines(files, S \ {fy})

TotalLines == Len(clients_file) + CountLines(txn_files, FYs)

-----------------------------------------------------------------------------
(* Settings *)

SettingsValues == {"s1", "s2"}

\* _load_settings: the new _settings from the old one and settings.json
_load_settings(s, file) == IF file = NoneStr THEN s ELSE file

get_settings == IF settings = NoneStr THEN "FileNotFoundError" ELSE settings
settings_exist == settings # NoneStr

-----------------------------------------------------------------------------
(* Quote, Job, Invoice *)

QuoteIds == {"Q1", "Q2"}
JobIds == {"J1", "J2"}
InvoiceIds == {"I1", "I2"}
LineItems == {"L1", "L2"}   \* two different non-empty line_items lists

\* Quote.status, were a quote expired from the day date_valid_until on
quote_status_expired_on_the_day(q, now) ==
  IF q.date_accepted # None THEN "accepted"
  ELSE IF q.date_rejected # None THEN "rejected"
  ELSE IF now >= q.date_valid_until THEN "expired"
  ELSE IF q.date_sent # None THEN "sent"
  ELSE "draft"

\* Quote.status, were date_rejected looked at before date_accepted
quote_status_rejected_first(q, now) ==
  IF q.date_rejected # None THEN "rejected"
  ELSE IF q.date_accepted # None THEN "accepted"
  ELSE IF now > q.date_valid_until THEN "expired"
  ELSE IF q.date_sent # None THEN "sent"
  ELSE "draft"

\* Quote.status
quote_status(q, now) ==
  IF q.date_accepted # None THEN "accepted"
  ELSE IF q.date_rejected # None THEN "rejected"
  ELSE IF now > q.date_valid_until THEN "expired"
  ELSE IF q.date_sent # None THEN "sent"
  ELSE "draft"

\* Job.status, were date_started looked at before date_completed
job_status_started_first(j) ==
  IF j.date_invoiced # None THEN "invoiced"
  ELSE IF j.date_started # None THEN "in_progress"
  ELSE IF j.date_completed # None THEN "completed"
  ELSE "scheduled"

\* Job.status
job_status(j) ==
  IF j.date_invoiced # None THEN "invoiced"
  ELSE IF j.date_completed # None THEN "completed"
  ELSE IF j.date_started # None THEN "in_progress"
  ELSE "scheduled"

\* Invoice.status, were the due date looked at whether or not the invoice was issued
invoice_status_overdue_unissued(i, now) ==
  IF i.date_cancelled # None THEN "cancelled"
  ELSE IF i.date_paid # None THEN "paid"
  ELSE IF now > i.date_due THEN "overdue"
  ELSE IF i.date_issued # None THEN "sent"
  ELSE "draft"

\* Invoice.status
invoice_status(i, now) ==
  IF i.date_cancelled # None THEN "cancelled"
  ELSE IF i.date_paid # None THEN "paid"
  ELSE IF i.date_issued # None
    THEN (IF now > i.date_due THEN "overdue" ELSE "sent")
  ELSE "draft"

\* Quote.model_dump_json: the fields and the computed fields, as of now
quote_dump_json(q, now) ==
  [quote_id |-> q.quote_id, client_id |-> q.client_id, date_created |-> q.date_created,
   date_sent |-> q.date_sent, date_accepted |-> q.date_accepted,
   date_rejected |-> q.date_rejected, date_valid_until |-> q.date_valid_until,
   line_items |-> q.line_items, version |-> q.version,
   status |-> quote_status(q, now),
   financial_year |-> get_financial_year(q.date_created)]

\* Quote.model_validate_json: the computed fields of the file are dropped
quote_validate_json(f) ==
  [quote_id |-> f.quote_id, client_id |-> f.client_id, date_created |-> f.date_created,
   date_sent |-> f.date_sent, date_accepted |-> f.date_accepted,
   date_rejected |-> f.date_rejected, date_valid_until |-> f.date_valid_until,
   line_items |-> f.line_items, version |-> f.version]

job_dump_json(j) ==
  [job_id |-> j.job_id, quote_id |-> j.quote_id, client_id |-> j.client_id,
   date_accepted |-> j.date_accepted, scheduled_date |-> j.scheduled_date,
   date_started |-> j.date_started, date_completed |-> j.date_completed,
   date_invoiced |-> j.date_invoiced,
   status |-> job_status(j),
   financial_year |-> get_financial_year(j.date_accepted)]

job_validate_json(f) ==
  [job_id |-> f.job_id, quote_id |-> f.quote_id, client_id |-> f.client_id,
   date_accepted |-> f.date_accepted, scheduled_date |-> f.scheduled_date,
   date_started |-> f.date_started, date_completed |-> f.date_completed,
   date_invoiced |-> f.date_invoiced]

invoice_dump_json(i, now) ==
  [invoice_id |-> i.invoice_id, job_id |-> i.job_id, client_id |-> i.client_id,
   date_created |-> i.date_created, date_issued |-> i.date_issued,
   date_due |-> i.date_due, date_paid |-> i.date_paid,
   date_cancelled |-> i.date_cancelled, line_items |-> i.line_items,
   version |-> i.version,
   status |-> invoice_status(i, now),
   financial_year |-> get_financial_year(
                        IF i.date_issued # None THEN i.date_issued ELSE i.date_created)]

invoice_validate_json(f) ==
  [invoice_id |-> f.invoice_id, job_id |-> f.job_id, client_id |-> f.client_id,
   date_created |-> f.date_created, date_issued |-> f.date_issued,
   date_due |-> f.date_due, date_paid |-> f.date_paid,
   date_cancelled |-> f.date_cancelled, line_items |-> f.line_items,
   version |-> f.version]

model_validate_json(kind, f) ==
  IF kind = "quote" THEN quote_validate_json(f)
  ELSE IF kind = "invoice" THEN invoice_validate_json(f)
  ELSE job_validate_json(f)

\* {id}_v{version}.json in the directory of the financial year of the date
_get_quote_path(quote_id, quote_created_date, version) ==
  <<get_financial_year(quote_created_date), quote_id, version>>
_get_invoice_path(invoice_id, invoice_issued_date, version) ==
  <<get_financial_year(invoice_issued_date), invoice_id, version>>
_get_job_path(job_id, job_accepted_date, version) ==
  <<get_financial_year(job_accepted_date), job_id, version>>

\* the (id, version) a file name gives
_parse_versioned_filename(path) == <<path[2], path[3]>>

-----------------------------------------------------------------------------
(* Objects: the registry keeps the object it is given, not a copy *)

\* A reference names an object.  An object the registry holds is named by the
\* first key it was stored under; an object only the caller refers to is Own.
NoRef == <<>>
Own == <<"x">>
Ref(kind, key) == <<kind, key[1], key[2]>>

\* the paths of files in the order the load visits them: year directories
\* sorted, the files of one directory in any order
RECURSIVE ScanOrder(_)
ScanOrder(paths) ==
  IF paths = {} THEN <<>>
  ELSE LET p == CHOOSE x \in paths : \A y \in paths : x[1][1] <= y[1][1]
       IN <<p>> \o ScanOrder(paths \ {p})

\* the loop of _load_quotes / _load_invoices / _load_jobs over the scanned
\* paths: a new object per file, stored under the key its name gives, and the
\* highest version seen per id
RECURSIVE load_versioned(_, _, _, _)
load_versioned(kind, scan, files, acc) ==
  IF scan = <<>> THEN acc
  ELSE LET path == Head(scan)
           obj == model_validate_json(kind, files[path])
           key == _parse_versioned_filename(path)
           ref == Ref(kind, key)
           id == key[1]
           version == key[2]
       IN load_versioned(kind, Tail(scan), files,
            [mem |-> Put(acc.mem, key, ref),
             latest |-> IF id \notin DOMAIN acc.latest \/ version > acc.latest[id]
                          THEN Put(acc.latest, id, version) ELSE acc.latest,
             objs |-> Put(acc.objs, ref, obj)])

NoneLoaded == [mem |-> Empty, latest |-> Empty, objs |-> Empty]

_load_quotes(files) ==
  load_versioned("quote", ScanOrder(DOMAIN files), files, NoneLoaded)
_load_invoices(files) ==
  load_versioned("invoice", ScanOrder(DOMAIN files), files, NoneLoaded)
_load_jobs(files) ==
  load_versioned("job", ScanOrder(DOMAIN files), files, NoneLoaded)

Merge(f, g) == [x \in DOMAIN f \cup DOMAIN g |-> IF x \in DOMAIN g THEN g[x] ELSE f[x]]

\* _load_all_data on a registry whose collections are empty: the memory it
\* builds, the objects it creates and the files it leaves (the JSONL files are
\* compacted).
_load_all_data ==
  LET cl == _load_clients(<<>>, clients_file)
      q == _load_quotes(quote_files)
      i == _load_invoices(invoice_files)
      j == _load_jobs(job_files)
      tx == _load_transactions(_get_all_fy_dirs, <<>>, txn_files)
  IN [clients |-> cl[1], clients_file |-> cl[2],
      quotes |-> q.mem, latest_quotes |-> q.latest,
      invoices |-> i.mem, latest_invoices |-> i.latest,
      jobs |-> j.mem, latest_jobs |-> j.latest,
      objs |-> Merge(Merge(q.objs, i.objs), j.objs),
      transactions |-> tx[1], txn_files |-> tx[2],
      settings |-> _load_settings(NoneStr, settings_file)]

-----------------------------------------------------------------------------
(* The state after StorageRegistry(data_dir) on an empty directory *)

Init ==
  /\ today = 1
  /\ clients_file = <<>>
  /\ txn_files = [fy \in FYs |-> <<>>]
  /\ quote_files = Empty
  /\ invoice_files = Empty
  /\ job_files = Empty
  /\ settings_file = NoneStr
  /\ config_settings_file = NoneStr
  /\ rules_file = <<>>
  /\ clients = <<>>
  /\ transactions = <<>>
  /\ quotes = Empty
  /\ invoices = Empty
  /\ jobs = Empty
  /\ latest_quotes = Empty
  /\ latest_invoices = Empty
  /\ latest_jobs = Empty
  /\ settings = NoneStr
  /\ heap = Empty
  /\ handles = [quote |-> NoRef, invoice |-> NoRef, job |-> NoRef]
  /\ history = Empty
  /\ pc = [at |-> "idle"]
  /\ last = [op |-> "init", result |-> "ok", dropped |-> 0, detail |-> NoneStr]

Called(op, result) ==
  last' = [op |-> op, result |-> result, dropped |-> 0, detail |-> NoneStr]

\* the call raised the exception result, whose message names detail
Raised(op, result, detail) ==
  last' = [op |-> op, result |-> result, dropped |-> 0, detail |-> detail]

versioned == <<quotes, invoices, jobs, latest_quotes, latest_invoices, latest_jobs,
               quote_files, invoice_files, job_files, heap, handles, history>>

\* the clock moves between two calls
AdvanceDay ==
  /\ pc.at = "idle"
  /\ today < MaxDay
  /\ today' = today + 1
  /\ Called("advance_day", "ok")
  /\ UNCHANGED <<disk, memory, heap, handles, history, pc>>

-----------------------------------------------------------------------------
(* Client operations *)

\* save_client, were the whole file rewritten from the clients in memory
save_client_rewriting(client) ==
  /\ pc.at = "idle"
  /\ TotalLines < MaxLines
  /\ clients' = DictSet(clients, lower(client.client_id), client)
  /\ clients_file' = _compact_clients(DictSet(clients, lower(client.client_id), client))
  /\ Called("save_client", "ok")
  /\ UNCHANGED <<today, txn_files, settings_file, config_settings_file, rules_file, transactions, settings, versioned, pc>>

save_client(client) ==
  /\ pc.at = "idle"
  /\ TotalLines < MaxLines
  /\ clients' = DictSet(clients, lower(client.client_id), client)
  /\ clients_file' = Append(clients_file, client_dump_json(client))
  /\ Called("save_client", "ok")
  /\ UNCHANGED <<today, txn_files, settings_file, config_settings_file, rules_file, transactions, settings, versioned, pc>>

-----------------------------------------------------------------------------
(* Transaction operations *)

\* save_transaction, were the key not looked up first
save_transaction_unchecked(transaction) ==
  /\ pc.at = "idle"
  /\ TotalLines < MaxLines
  /\ transactions' = DictSet(transactions, txn_key(transaction), transaction)
  /\ txn_files' = [txn_files EXCEPT ![_get_transaction_file(transaction.date)] =
                     Append(@, txn_dump_json(transaction))]
  /\ Called("save_transaction", "ok")
  /\ UNCHANGED <<today, clients_file, settings_file, config_settings_file, rules_file, clients, settings, versioned, pc>>

save_transaction(transaction) ==
  /\ pc.at = "idle"
  /\ IF DictHas(transactions, txn_key(transaction))
       THEN /\ Called("save_transaction", "ValueError")
            /\ UNCHANGED <<transactions, txn_files>>
       ELSE /\ TotalLines < MaxLines
            /\ transactions' = DictSet(transactions, txn_key(transaction), transaction)
            /\ txn_files' = [txn_files EXCEPT ![_get_transaction_file(transaction.date)] =
                               Append(@, txn_dump_json(transaction))]
            /\ Called("save_transaction", "ok")
  /\ UNCHANGED <<today, clients_file, settings_file, config_settings_file, rules_file, clients, settings, versioned, pc>>

update_transaction(transaction) ==
  /\ pc.at = "idle"
  /\ IF ~DictHas(transactions, txn_key(transaction))
       THEN /\ Called("update_transaction", "KeyError")
            /\ UNCHANGED <<transactions, txn_files>>
       ELSE /\ TotalLines < MaxLines
            /\ transactions' = DictSet(transactions, txn_key(transaction), transaction)
            /\ txn_files' = [txn_files EXCEPT ![_get_transaction_file(transaction.date)] =
                               Append(@, txn_dump_json(transaction))]
            /\ Called("update_transaction", "ok")
  /\ UNCHANGED <<today, clients_file, settings_file, config_settings_file, rules_file, clients, settings, versioned, pc>>

\* delete_transaction, were the year file left as it is
delete_transaction_from_memory(transaction_id, transaction_date) ==
  /\ pc.at = "idle"
  /\ LET key == <<transaction_id, transaction_date>> IN
     IF ~DictHas(transactions, key)
       THEN /\ Called("delete_transaction", "KeyError")
            /\ UNCHANGED <<transactions, txn_files>>
       ELSE /\ transactions' = DictDel(transactions, key)
            /\ UNCHANGED txn_files
            /\ Called("delete_transaction", "ok")
  /\ UNCHANGED <<today, clients_file, settings_file, config_settings_file, rules_file, clients, settings, versioned, pc>>

\* last.dropped: the lines of the year file that held the deleted key
delete_transaction(transaction_id, transaction_date) ==
  /\ pc.at = "idle"
  /\ LET key == <<transaction_id, transaction_date>> IN
     IF ~DictHas(transactions, key)
       THEN /\ Called("delete_transaction", "KeyError")
            /\ UNCHANGED <<transactions, txn_files>>
       ELSE LET left == DictDel(transactions, key)
                remaining == SelectSeq(DictValues(left),
                               LAMBDA t : get_financial_year(t.date)
                                            = get_financial_year(transaction_date))
                txn_file == _get_transaction_file(transaction_date)
            IN /\ transactions' = left
               /\ txn_files' = [txn_files EXCEPT ![txn_file] =
                                  _compact_transactions_for_file(remaining)]
               /\ last' = [op |-> "delete_transaction", result |-> "ok", detail |-> NoneStr,
                           dropped |-> Cardinality({i \in DOMAIN txn_files[txn_file] :
                                          txn_key(txn_files[txn_file][i]) = key})]
  /\ UNCHANGED <<today, clients_file, settings_file, config_settings_file, rules_file, clients, settings, versioned, pc>>

\* the reversing entries of void_transaction
reversed_entries(entries) ==
  [n \in DOMAIN entries |->
     [account_code |-> entries[n].account_code,
      debit |-> entries[n].credit,
      credit |-> entries[n].debit]]

\* new_id: the transaction_id generate_transaction_id gives the reversing transaction
void_transaction(transaction_id, transaction_date, new_id) ==
  /\ pc.at = "idle"
  /\ LET key == <<transaction_id, transaction_date>>
         original == get_transaction(transaction_id, transaction_date)
     IN
     IF ~transaction_exists(transaction_id, transaction_date)
       THEN /\ Called("void_transaction", "KeyError")
            /\ UNCHANGED <<transactions, txn_files>>
       ELSE LET void_txn ==
                  new_transaction(new_id, today,
                                  <<"VOID: ">> \o original.description
                                    \o <<" (reverses ", transaction_id, ")">>,
                                  reversed_entries(original.entries))
            IN IF DictHas(transactions, txn_key(void_txn))
                 THEN /\ Called("void_transaction", "ValueError")
                      /\ UNCHANGED <<transactions, txn_files>>
                 ELSE /\ TotalLines < MaxLines
                      /\ transactions' = DictSet(transactions, txn_key(void_txn), void_txn)
                      /\ txn_files' = [txn_files EXCEPT ![_get_transaction_file(void_txn.date)] =
                                         Append(@, txn_dump_json(void_txn))]
                      /\ Called("void_transaction", "ok")
  /\ UNCHANGED <<today, clients_file, settings_file, config_settings_file, rules_file, clients, settings, versioned, pc>>

-----------------------------------------------------------------------------
(* Settings operations *)

save_settings(s) ==
  /\ pc.at = "idle"
  /\ settings' = s
  /\ settings_file' = s
  /\ Called("save_settings", "ok")
  /\ UNCHANGED <<today, clients_file, txn_files, rules_file, config_settings_file,
                 clients, transactions, versioned, pc>>

-----------------------------------------------------------------------------
(* Loading *)

\* the caller's one variable bound to the object ref, of class var
Bound(var, ref) == [v \in DOMAIN handles |-> IF v = var THEN ref ELSE NoRef]

\* the class of the object the caller's variable refers to, if any
HeldVars == {v \in DOMAIN handles : handles[v] # NoRef}

\* the number of lines of a file whose content the rewritten file no longer holds
Gone(file, rewritten) ==
  Cardinality({i \in DOMAIN file : file[i] \notin Range(rewritten)})

\* the registry's collections and the files as _load_all_data leaves them
Loaded(op) ==
  LET l == _load_all_data IN
  /\ clients' = l.clients
  /\ clients_file' = l.clients_file
  /\ transactions' = l.transactions
  /\ txn_files' = l.txn_files
  /\ quotes' = l.quotes
  /\ invoices' = l.invoices
  /\ jobs' = l.jobs
  /\ latest_quotes' = l.latest_quotes
  /\ latest_invoices' = l.latest_invoices
  /\ latest_jobs' = l.latest_jobs
  /\ settings' = l.settings
  /\ heap' = IF HeldVars = {} THEN l.objs
              ELSE Put(l.objs, Own, heap[handles[CHOOSE v \in HeldVars : TRUE]])
  /\ handles' = [v \in DOMAIN handles |-> IF handles[v] # NoRef THEN Own ELSE NoRef]
  /\ last' = [op |-> op, result |-> "ok", detail |-> NoneStr,
              dropped |-> Gone(clients_file, l.clients_file)
                            + Cardinality({p \in FYs \X (1..MaxLines) :
                                             /\ p[2] \in DOMAIN txn_files[p[1]]
                                             /\ txn_files[p[1]][p[2]]
                                                  \notin Range(l.txn_files[p[1]])})]
  /\ UNCHANGED <<today, quote_files, invoice_files, job_files, settings_file, config_settings_file, rules_file,
                 history, pc>>

\* StorageRegistry.reload
reload ==
  /\ pc.at = "idle"
  /\ Loaded("reload")

\* StorageRegistry.__init__: a new registry over the same directory takes the
\* place of the old one
new_registry ==
  /\ pc.at = "idle"
  /\ Loaded("__init__")

-----------------------------------------------------------------------------------------------------------------------------------------------------
(* Quote operations *)

\* the number of save calls made so far for an id
SaveCount(kind, id) == Cardinality({k \in DOMAIN history : k[1] = kind /\ k[2] = id})

Saved(kind, value, id) == Put(history, <<kind, id, SaveCount(kind, id) + 1>>, value)

VersionFiles ==
  Cardinality(DOMAIN quote_files) + Cardinality(DOMAIN invoice_files)
    + Cardinality(DOMAIN job_files)

\* the next version, were the highest one taken again
_get_next_quote_version_same(quote_id) ==
  IF quote_id \in DOMAIN latest_quotes THEN latest_quotes[quote_id] ELSE 1

_get_next_quote_version(quote_id) ==
  IF quote_id \in DOMAIN latest_quotes THEN latest_quotes[quote_id] + 1 ELSE 1

\* the registry keeps the object ref under key: the heap and the caller's
\* variable once the object has the name it is kept under
Keep(var, ref, key) ==
  LET name == IF ref = Own THEN Ref(var, key) ELSE ref
  IN /\ heap' = [r \in ((DOMAIN heap) \ {ref}) \cup {name} |->
                   IF r = name THEN heap[ref] ELSE heap[r]]
     /\ handles' = [v \in DOMAIN handles |-> IF handles[v] = ref THEN name ELSE handles[v]]

Kept(ref, var, key) == IF ref = Own THEN Ref(var, key) ELSE ref

\* save_quote(quote), quote being the object the caller's variable refers to
save_quote ==
  /\ pc.at = "idle"
  /\ handles.quote # NoRef
  /\ VersionFiles < MaxVersionFiles
  /\ LET ref == handles.quote
         quote == heap[ref]
         version == _get_next_quote_version(quote.quote_id)
         key == <<quote.quote_id, version>>
     IN /\ quotes' = Put(quotes, key, Kept(ref, "quote", key))
        /\ Keep("quote", ref, key)
        /\ latest_quotes' = Put(latest_quotes, quote.quote_id, version)
        /\ quote_files' = Put(quote_files,
                              _get_quote_path(quote.quote_id, quote.date_created, version),
                              quote_dump_json(quote, today))
        /\ history' = Saved("quote", quote, quote.quote_id)
  /\ Called("save_quote", "ok")
  /\ UNCHANGED <<today, clients_file, txn_files, invoice_files, job_files, settings_file, config_settings_file, rules_file,
                 clients, transactions, invoices, jobs, latest_invoices, latest_jobs,
                 settings, pc>>

\* whether get_quote(quote_id, date, version) finds a quote (version None: the latest)
has_quote(quote_id, version) ==
  IF version = None THEN quote_id \in DOMAIN latest_quotes
  ELSE <<quote_id, version>> \in DOMAIN quotes

\* the reference get_quote returns when it finds one
get_quote_ref(quote_id, version) ==
  quotes[<<quote_id, IF version = None THEN latest_quotes[quote_id] ELSE version>>]

\* the Quote get_quote returns when it finds one
get_quote(quote_id, version) == heap[get_quote_ref(quote_id, version)]

\* sorted(...) of a set of version numbers
RECURSIVE sorted(_)
sorted(S) ==
  IF S = {} THEN <<>>
  ELSE LET m == CHOOSE x \in S : \A y \in S : x <= y
       IN <<m>> \o sorted(S \ {m})

get_quote_versions(quote_id) == sorted({k[2] : k \in {x \in DOMAIN quotes : x[1] = quote_id}})

\* get_all_quotes(latest_only=True), as a set: the order of the list is the
\* order of the directory scan
get_all_quotes == {heap[quotes[<<id, latest_quotes[id]>>]] : id \in DOMAIN latest_quotes}

-----------------------------------------------------------------------------
(* Invoice operations *)

_get_next_invoice_version(invoice_id) ==
  IF invoice_id \in DOMAIN latest_invoices THEN latest_invoices[invoice_id] + 1 ELSE 1

save_invoice ==
  /\ pc.at = "idle"
  /\ handles.invoice # NoRef
  /\ VersionFiles < MaxVersionFiles
  /\ LET ref == handles.invoice
         invoice == heap[ref]
         version == _get_next_invoice_version(invoice.invoice_id)
         key == <<invoice.invoice_id, version>>
         invoice_date == IF invoice.date_issued # None THEN invoice.date_issued
                         ELSE invoice.date_created
     IN /\ invoices' = Put(invoices, key, Kept(ref, "invoice", key))
        /\ Keep("invoice", ref, key)
        /\ latest_invoices' = Put(latest_invoices, invoice.invoice_id, version)
        /\ invoice_files' = Put(invoice_files,
                                _get_invoice_path(invoice.invoice_id, invoice_date, version),
                                invoice_dump_json(invoice, today))
        /\ history' = Saved("invoice", invoice, invoice.invoice_id)
  /\ Called("save_invoice", "ok")
  /\ UNCHANGED <<today, clients_file, txn_files, quote_files, job_files, settings_file, config_settings_file, rules_file,
                 clients, transactions, quotes, jobs, latest_quotes, latest_jobs,
                 settings, pc>>

has_invoice(invoice_id, version) ==
  IF version = None THEN invoice_id \in DOMAIN latest_invoices
  ELSE <<invoice_id, version>> \in DOMAIN invoices

get_invoice_ref(invoice_id, version) ==
  invoices[<<invoice_id, IF version = None THEN latest_invoices[invoice_id] ELSE version>>]

get_invoice(invoice_id, version) == heap[get_invoice_ref(invoice_id, version)]

get_invoice_versions(invoice_id) ==
  sorted({k[2] : k \in {x \in DOMAIN invoices : x[1] = invoice_id}})

get_all_invoices ==
  {heap[invoices[<<id, latest_invoices[id]>>]] : id \in DOMAIN latest_invoices}

-----------------------------------------------------------------------------
(* Job operations *)

_get_next_job_version(job_id) ==
  IF job_id \in DOMAIN latest_jobs THEN latest_jobs[job_id] + 1 ELSE 1

\* the assignments and the file write of save_job(job), job being the object ref denotes
save_job_effect(ref) ==
  LET job == heap[ref]
      version == _get_next_job_version(job.job_id)
      key == <<job.job_id, version>>
  IN /\ jobs' = Put(jobs, key, Kept(ref, "job", key))
     /\ Keep("job", ref, key)
     /\ latest_jobs' = Put(latest_jobs, job.job_id, version)
     /\ job_files' = Put(job_files,
                         _get_job_path(job.job_id, job.date_accepted, version),
                         job_dump_json(job))
     /\ history' = Saved("job", job, job.job_id)

save_job ==
  /\ pc.at = "idle"
  /\ handles.job # NoRef
  /\ VersionFiles < MaxVersionFiles
  /\ save_job_effect(handles.job)
  /\ Called("save_job", "ok")
  /\ UNCHANGED <<today, clients_file, txn_files, quote_files, invoice_files, settings_file, config_settings_file, rules_file,
                 clients, transactions, quotes, invoices, latest_quotes, latest_invoices,
                 settings, pc>>

update_job ==
  /\ pc.at = "idle"
  /\ handles.job # NoRef
  /\ IF heap[handles.job].job_id \notin DOMAIN latest_jobs
       THEN /\ Called("update_job", "FileNotFoundError")
            /\ UNCHANGED <<jobs, latest_jobs, job_files, history, heap, handles>>
       ELSE /\ VersionFiles < MaxVersionFiles
            /\ save_job_effect(handles.job)
            /\ Called("update_job", "ok")
  /\ UNCHANGED <<today, clients_file, txn_files, quote_files, invoice_files, settings_file, config_settings_file, rules_file,
                 clients, transactions, quotes, invoices, latest_quotes, latest_invoices,
                 settings, pc>>

has_job(job_id, version) ==
  IF version = None THEN job_id \in DOMAIN latest_jobs
  ELSE <<job_id, version>> \in DOMAIN jobs

get_job_ref(job_id, version) ==
  jobs[<<job_id, IF version = None THEN latest_jobs[job_id] ELSE version>>]

get_job(job_id, version) == heap[get_job_ref(job_id, version)]

get_job_versions(job_id) == sorted({k[2] : k \in {x \in DOMAIN jobs : x[1] = job_id}})

get_all_jobs == {heap[jobs[<<id, latest_jobs[id]>>]] : id \in DOMAIN latest_jobs}

-----------------------------------------------------------------------------
(* The caller: it constructs a Quote, an Invoice or a Job, keeps it in a     *)
(* variable, sets fields of it, and takes objects back from the registry    *)

\* the objects the registry refers to
MemRefs == Range(quotes) \cup Range(invoices) \cup Range(jobs)

\* x = <a newly constructed object of class var>
construct(var, obj) ==
  /\ pc.at = "idle"
  /\ handles' = Bound(var, Own)
  /\ heap' = Put(Restrict(heap, MemRefs), Own, obj)
  /\ Called("construct", "ok")
  /\ UNCHANGED <<today, disk, memory, history, pc>>

\* x.field = value
assign(var, field, value) ==
  /\ pc.at = "idle"
  /\ handles[var] # NoRef
  /\ heap[handles[var]][field] # value
  /\ heap' = [heap EXCEPT ![handles[var]][field] = value]
  /\ Called("assign", "ok")
  /\ UNCHANGED <<today, disk, memory, handles, history, pc>>

\* x = storage.get_quote(...) / get_invoice(...) / get_job(...)
fetch(var, found, ref) ==
  /\ pc.at = "idle"
  /\ IF ~found
       THEN /\ Called("get_" \o var, "FileNotFoundError")
            /\ UNCHANGED <<heap, handles>>
       ELSE /\ handles[var] # ref
            /\ handles' = Bound(var, ref)
            /\ heap' = Restrict(heap, MemRefs)
            /\ Called("get_" \o var, "ok")
  /\ UNCHANGED <<today, disk, memory, history, pc>>

-----
(* The registry over its JSONL files and settings.json *)

NextRegistry ==
  \/ \E client \in Client : save_client(client)
  \/ \E transaction \in Transaction : save_transaction(transaction)
  \/ \E transaction \in Transaction : update_transaction(transaction)
  \/ \E id \in TxnIds, d \in TxnDates : delete_transaction(id, d)
  \/ reload
  \/ new_registry

SpecRegistry == Init /\ [][NextRegistry]_vars

-----------------------------------------------------------------------------
(* Properties of the registry over its JSONL files *)

\* C4: save_transaction raises ValueError exactly when the (transaction_id,
\* date) key is stored, update_transaction raises KeyError exactly when it is
\* not, and in both error cases the in-memory transactions and the files are
\* unchanged; a stored id with another date is another key: the save is
\* accepted and the transaction stored.
C4_TransactionKeyErrors ==
  [][\A t \in Transaction :
       /\ save_transaction(t) =>
            IF \E i \in DOMAIN transactions :
                 /\ transactions[i][2].transaction_id = t.transaction_id
                 /\ transactions[i][2].date = t.date
              THEN /\ last'.result = "ValueError"
                   /\ UNCHANGED <<transactions, txn_files>>
              ELSE /\ last'.result = "ok"
                   /\ \E i \in DOMAIN transactions' : transactions'[i][2] = t
                   /\ Len(transactions') = Len(transactions) + 1
       /\ update_transaction(t) =>
            IF \E i \in DOMAIN transactions :
                 /\ transactions[i][2].transaction_id = t.transaction_id
                 /\ transactions[i][2].date = t.date
              THEN last'.result = "ok"
              ELSE /\ last'.result = "KeyError"
                   /\ UNCHANGED <<transactions, txn_files>>]_vars

\* a save refused while the same id is stored under two dates
C4_Witness ==
  /\ last.op = "save_transaction"
  /\ last.result = "ValueError"
  /\ \E i, j \in DOMAIN transactions :
       /\ transactions[i][2].transaction_id = transactions[j][2].transaction_id
       /\ transactions[i][2].date # transactions[j][2].date

\* the upper-case and lower-case variants of an id, and the id
Variants(id) == {id, upper(id), lower(id)}

\* two ids that differ by case only
SameFolded(a, b) == upper(a) = upper(b)

\* C9: the registry holds one client per case-folded client_id; a save_client
\* makes every case variant of the saved id return the saved record, with the
\* client_id as given, and changes the answer for no other id; so an id never
\* saved is never found.
C9_CaseInsensitiveClients ==
  [][/\ \A i, j \in DOMAIN clients' :
          SameFolded(clients'[i][2].client_id, clients'[j][2].client_id) => i = j
     /\ \A c \in Client :
          save_client(c) =>
            /\ \A v \in Variants(c.client_id) :
                 client_exists(v)' /\ get_client(v)' = c
            /\ \A id \in ClientIds :
                 ~SameFolded(id, c.client_id) =>
                   \A v \in Variants(id) :
                     /\ client_exists(v)' = client_exists(v)
                     /\ client_exists(v) => get_client(v)' = get_client(v)]_vars

\* the last line of a file among those whose key is k
LastLine(file, keyOf(_), k) ==
  file[CHOOSE i \in DOMAIN file :
         /\ keyOf(file[i]) = k
         /\ \A j \in DOMAIN file : keyOf(file[j]) = k => j <= i]

client_key(line) == lower(line.client_id)
line_key(line) == <<line.transaction_id, line.date>>

\* mem holds the last line of each key of file, and nothing else; rewritten
\* holds one line per key, the one kept
Compacted(file, rewritten, mem, keyOf(_), validate(_)) ==
  LET keys == {keyOf(file[i]) : i \in DOMAIN file}
  IN /\ DictKeys(mem) = keys
     /\ Len(mem) = Cardinality(keys)
     /\ \A k \in keys : DictGet(mem, k) = validate(LastLine(file, keyOf, k))
     /\ Len(rewritten) = Cardinality(keys)
     /\ \A k \in keys :
          \E i \in DOMAIN rewritten :
            /\ keyOf(rewritten[i]) = k
            /\ rewritten[i] = LastLine(file, keyOf, k)

\* the transactions of one financial year among those in memory
OfYear(txns, fy) == SelectSeq(txns, LAMBDA e : get_financial_year(e[1][2]) = fy)

\* C10: constructing or reloading a registry keeps in memory the last line of
\* each key of clients.jsonl and of each year's transactions.jsonl and
\* rewrites each file to one line per key; loading the rewritten files again
\* gives the same memory and leaves the files as they are.
C10_CompactionOnLoad ==
  [][last'.op \in {"reload", "__init__"} =>
       /\ Compacted(clients_file, clients_file', clients', client_key, client_validate_json)
       /\ \A fy \in FYs :
            Compacted(txn_files[fy], txn_files'[fy], OfYear(transactions', fy),
                      line_key, txn_validate_json)
       /\ _load_clients(<<>>, clients_file') = <<clients', clients_file'>>
       /\ _load_transactions(_get_all_fy_dirs, <<>>, txn_files')
            = <<transactions', txn_files'>>]_vars

\* a load that dropped a line whose content differs from the line kept
C10_Witness ==
  /\ last.op \in {"reload", "__init__"}
  /\ last.dropped > 0
  /\ Len(clients) + Len(transactions) > 0

\* the <<key, value>> pairs a dict holds, and those a load of the files gives
Items(d) == {d[i] : i \in DOMAIN d}
LoadedTransactions(files) == Items(_load_transactions(_get_all_fy_dirs, <<>>, files)[1])

\* C11: delete_transaction on a stored key removes that key from memory and
\* every line of that key from the year file, so that a load of the files
\* does not bring it back, and memory and a load of the files hold every
\* other transaction as before; on a key not stored it raises KeyError and
\* changes neither memory nor the files.
C11_DeleteTransaction ==
  [][\A id \in TxnIds, d \in TxnDates :
       (last'.op = "delete_transaction" /\ delete_transaction(id, d)) =>
         LET key == <<id, d>> IN
         IF DictHas(transactions, key)
           THEN /\ last'.result = "ok"
                /\ Items(transactions') = {e \in Items(transactions) : e[1] # key}
                /\ Len(transactions') = Len(transactions) - 1
                /\ \A fy \in FYs : \A i \in DOMAIN txn_files'[fy] :
                     line_key(txn_files'[fy][i]) # key
                /\ LoadedTransactions(txn_files')
                     = {e \in LoadedTransactions(txn_files) : e[1] # key}
                /\ LoadedTransactions(txn_files') = Items(transactions')
                /\ UNCHANGED <<clients, clients_file>>
           ELSE /\ last'.result = "KeyError"
                /\ UNCHANGED <<disk, memory>>]_vars

\* a delete that took several lines of its key from a year file and left
\* another transaction stored
C11_Witness ==
  /\ last.op = "delete_transaction"
  /\ last.result = "ok"
  /\ last.dropped >= 2
  /\ Len(transactions) >= 1

\* C13, as claimed: after every save_client, clients.jsonl holds exactly one
\* line per stored client.
C13_OneLinePerClient ==
  [][\A c \in Client :
       (last'.op = "save_client" /\ save_client(c)) =>
         /\ Len(clients_file') = Len(clients')
         /\ \A i, j \in DOMAIN clients_file' :
              client_key(clients_file'[i]) = client_key(clients_file'[j]) => i = j]_vars

\* C13, as it holds: save_client appends one line, the saved record, to
\* clients.jsonl and rewrites nothing; the file then holds at least one line
\* per stored client, and the last line of each case-folded id is the client
\* in memory.
C13_SaveClientAppends ==
  [][\A c \in Client :
       (last'.op = "save_client" /\ save_client(c)) =>
         /\ clients_file' = Append(clients_file, client_dump_json(c))
         /\ Len(clients_file') >= Len(clients')
         /\ {client_key(clients_file'[i]) : i \in DOMAIN clients_file'} = DictKeys(clients')
         /\ \A k \in DictKeys(clients') :
              client_validate_json(LastLine(clients_file', client_key, k))
                = DictGet(clients', k)]_vars

\* a save_client that left two lines for one client in the file
C13_Witness ==
  /\ last.op = "save_client"
  /\ Len(clients) = 1
  /\ Len(clients_file) = 2
  /\ clients_file[1] # clients_file[2]

-----------------------------------------------------------------------------
(* Voiding: the registry's transactions over several days *)

\* the transactions a caller saves before voiding
VoidTransactions == {t \in Transaction : t.description = <<"d1">>}

NextVoid ==
  \/ AdvanceDay
  \/ \E transaction \in VoidTransactions : save_transaction(transaction)
  \/ \E id \in TxnIds, d \in Dates, new_id \in TxnIds : void_transaction(id, d, new_id)
  \/ reload

SpecVoid == Init /\ [][NextVoid]_vars

\* the entries of the reversing transaction: those of the original in the
\* same order, with the same account codes and debit and credit swapped
Reverses(void_entries, entries) ==
  /\ Len(void_entries) = Len(entries)
  /\ \A n \in DOMAIN entries :
       /\ void_entries[n].account_code = entries[n].account_code
       /\ void_entries[n].debit = entries[n].credit
       /\ void_entries[n].credit = entries[n].debit

\* C12: void_transaction on a stored key stores one more transaction, in
\* memory and in its year file, under another key, whose entries reverse the
\* original's, and every transaction stored before stays as it was; on a key
\* not stored it raises KeyError and stores nothing.
C12_VoidStoresReversal ==
  [][\A id \in TxnIds, d \in Dates, new_id \in TxnIds :
       (last'.op = "void_transaction" /\ void_transaction(id, d, new_id)) =>
         LET key == <<id, d>> IN
         IF DictHas(transactions, key)
           THEN /\ last'.result = "ok"
                /\ Len(transactions') = Len(transactions) + 1
                /\ Items(transactions) \subseteq Items(transactions')
                /\ \E e \in Items(transactions') \ Items(transactions) :
                     /\ e[1] # key
                     /\ Reverses(e[2].entries, DictGet(transactions, key).entries)
                /\ LoadedTransactions(txn_files') = Items(transactions')
           ELSE /\ last'.result = "KeyError"
                /\ UNCHANGED <<disk, memory>>]_vars

-----------------------------------------------------------------------------
(* The ledger: transactions as their constructors admit them, bank rows and *)
(* classification                                                           *)

JournalEntry(account_code, debit, credit) ==
  [account_code |-> account_code, debit |-> debit, credit |-> credit]

\* Field(ge=0) on debit and credit (amounts in cents)
ge0(entry) == entry.debit >= 0 /\ entry.credit >= 0

\* JournalEntry.check_debit_or_credit
check_debit_or_credit(entry) ==
  /\ ~(entry.debit > 0 /\ entry.credit > 0)
  /\ ~(entry.debit = 0 /\ entry.credit = 0)

\* JournalEntry(...) returns (it raises ValidationError otherwise)
entry_constructed(entry) == ge0(entry) /\ check_debit_or_credit(entry)

RECURSIVE SumCredit(_)
SumCredit(es) == IF es = <<>> THEN 0 ELSE Head(es).credit + SumCredit(Tail(es))

\* Transaction.check_balanced
check_balanced(entries) == SumDebit(entries) = SumCredit(entries)

\* transaction_constructed, were the balance not checked
transaction_constructed_unbalanced(description, entries) ==
  /\ \A n \in DOMAIN entries : entry_constructed(entries[n])
  /\ Len(entries) >= 2
  /\ Len(description) >= 1

\* Transaction(...) returns: every entry was constructed, Field(min_length=2)
\* on entries, Field(min_length=1) on description, and the balance
transaction_constructed(description, entries) ==
  /\ \A n \in DOMAIN entries : entry_constructed(entries[n])
  /\ Len(entries) >= 2
  /\ Len(description) >= 1
  /\ check_balanced(entries)

\* the account codes of the model that contain the marker "UNCLASSIFIED"
Marked == {"EXP-UNCLASSIFIED", "INC-UNCLASSIFIED"}
has_marker(account_code) == account_code \in Marked

\* the lists of entries a caller asks for
EntriesGiven ==
  {<<JournalEntry("EXP-UNCLASSIFIED", 1, 0), JournalEntry("BANK", 0, 1)>>,
   <<JournalEntry("EXP", 2, 0), JournalEntry("BANK", 0, 1), JournalEntry("GST", 0, 1)>>,
   <<JournalEntry("EXP", 1, 0)>>,
   <<JournalEntry("EXP", 0, 0), JournalEntry("BANK", 0, 0)>>,
   <<JournalEntry("EXP", 1, 1), JournalEntry("BANK", 1, 1)>>,
   <<JournalEntry("EXP", 0 - 1, 0), JournalEntry("BANK", 0, 0 - 1)>>,
   <<JournalEntry("EXP", 2, 0), JournalEntry("BANK", 0, 1)>>}

LedgerDescriptions == {<<"d1">>}

\* Transaction(transaction_id=..., date=..., description=..., entries=[...])
\* followed by save_transaction or update_transaction of the result
save_constructed(transaction_id, d, description, entries, update) ==
  IF ~transaction_constructed(description, entries)
    THEN /\ pc.at = "idle"
         /\ Raised("Transaction", "ValidationError", NoneStr)
         /\ UNCHANGED <<today, disk, memory, heap, handles, history, pc>>
    ELSE LET t == new_transaction(transaction_id, d, description, entries)
         IN IF update THEN update_transaction(t) ELSE save_transaction(t)

\* BankTransaction: debit and credit with Field(ge=0), amount and is_debit
BankAmounts == {0, 1}
BankRows == [date : {2}, description : {<<"d1">>}, debit : BankAmounts, credit : BankAmounts]
bank_amount(bank_txn) == bank_txn.credit - bank_txn.debit
is_debit(bank_txn) == bank_txn.debit > 0
abs(n) == IF n < 0 THEN 0 - n ELSE n

\* the entries convert_to_transaction builds for a bank row
convert_entries(bank_txn, bank_account_code, expense_account_code, income_account_code) ==
  LET amount == abs(bank_amount(bank_txn)) IN
  IF amount = 0
    THEN <<JournalEntry(bank_account_code, 1, 0), JournalEntry("MEMO", 0, 1)>>
  ELSE IF is_debit(bank_txn)
    THEN <<JournalEntry(expense_account_code, amount, 0),
           JournalEntry(bank_account_code, 0, amount)>>
    ELSE <<JournalEntry(bank_account_code, amount, 0),
           JournalEntry(income_account_code, 0, amount)>>

\* convert_to_transaction: the Transaction of the row's date, description and
\* entries, with the import metadata when import_file or import_date is given.
\* transaction_id is the id generate_transaction_id gives; line_number is the
\* row's line_number (None when the row carries none).
convert_to_transaction(bank_txn, line_number, bank_account_code, transaction_id, import_file, import_date) ==
  LET t == new_transaction(transaction_id, bank_txn.date, bank_txn.description,
                           convert_entries(bank_txn, bank_account_code,
                                           "EXP-UNCLASSIFIED", "INC-UNCLASSIFIED"))
  IN IF import_file # NoneStr \/ import_date # None
       THEN [t EXCEPT !.import_source = "bank_import",
                      !.import_file = import_file,
                      !.import_date = import_date,
                      !.import_line_number = line_number,
                      !.import_match_date = bank_txn.date,
                      !.import_match_description = bank_txn.description,
                      !.import_match_amount = <<bank_amount(bank_txn)>>,
                      !.import_match_account = bank_account_code]
       ELSE t

\* convert_to_transaction followed by save_transaction of its result, with or
\* without an import file and date
import_row(bank_txn, transaction_id, with_metadata) ==
  LET t == convert_to_transaction(bank_txn, None, "BANK", transaction_id,
                                  IF with_metadata THEN "s.csv" ELSE NoneStr,
                                  IF with_metadata THEN today ELSE None)
  IN IF ~transaction_constructed(t.description, t.entries)
       THEN /\ pc.at = "idle"
            /\ Raised("Transaction", "ValidationError", NoneStr)
            /\ UNCHANGED <<today, disk, memory, heap, handles, history, pc>>
       ELSE save_transaction(t)

-----------------------------------------------------------------------------
(* Classification rules and the matcher.  A description and a pattern are    *)
(* tuples of characters; "." in a pattern stands for any character and "("   *)
(* is an opening parenthesis that nothing closes.                            *)

MaxRules == 2        \* rules in the list a caller passes

\* re.compile(rule.pattern, re.IGNORECASE) returns (it raises re.error otherwise)
pattern_compiles(pattern) == \A k \in DOMAIN pattern : pattern[k] # "("

\* one character of the pattern against one of the description, ignoring case
char_matches(p, c) == p = "." \/ lower_char(p) = lower_char(c)

\* the places where pattern.search(description) can match
match_starts(description, pattern) ==
  {i \in 1..(Len(description) - Len(pattern) + 1) :
     \A k \in DOMAIN pattern : char_matches(pattern[k], description[i + k - 1])}

Min(S) == CHOOSE x \in S : \A y \in S : x <= y

RuleMatch(rule, confidence, matched_text) ==
  [rule |-> rule, confidence |-> confidence, matched_text |-> matched_text]

\* match_pattern for a pattern that compiles: <<>> for None, <<RuleMatch>> else
match_pattern(description, rule) ==
  LET starts == match_starts(description, rule.pattern) IN
  IF starts = {} THEN <<>>
  ELSE <<RuleMatch(rule, 1, SubSeq(description, Min(starts),
                                   Min(starts) + Len(rule.pattern) - 1))>>

\* the loop of find_best_match: the matches in the order of the rules
RECURSIVE all_matches(_, _)
all_matches(description, rules) ==
  IF rules = <<>> THEN <<>>
  ELSE match_pattern(description, Head(rules)) \o all_matches(description, Tail(rules))

\* list.sort(key=priority, reverse=True), which is stable: each match goes
\* behind the matches before it whose priority is not lower
insert_by_priority(sorted_matches, m) ==
  LET pos == Cardinality({i \in DOMAIN sorted_matches :
                            sorted_matches[i].rule.priority >= m.rule.priority})
  IN SubSeq(sorted_matches, 1, pos) \o <<m>>
       \o SubSeq(sorted_matches, pos + 1, Len(sorted_matches))

RECURSIVE sort_by_priority(_, _)
sort_by_priority(matches, sorted_matches) ==
  IF matches = <<>> THEN sorted_matches
  ELSE sort_by_priority(Tail(matches), insert_by_priority(sorted_matches, Head(matches)))

\* find_best_match: the exception raised if any, and <<>> for None or <<RuleMatch>>
find_best_match(description, rules) ==
  IF \E n \in DOMAIN rules : ~pattern_compiles(rules[n].pattern)
    THEN [raised |-> "re.error", match |-> <<>>]
  ELSE LET matches == all_matches(description, rules) IN
       IF matches = <<>> THEN [raised |-> NoneStr, match |-> <<>>]
       ELSE [raised |-> NoneStr, match |-> <<Head(sort_by_priority(matches, <<>>))>>]

classify_transaction(transaction, rules) == find_best_match(transaction.description, rules)

\* ClassificationRule(...) returns: Field(min_length=1) on pattern,
\* account_code and description, Field(ge=0) on priority
rule_constructed(rule) ==
  /\ Len(rule.pattern) >= 1
  /\ rule.account_code # ""
  /\ rule.description # ""
  /\ rule.priority >= 0

Patterns == {<<"a">>, <<"A", "b">>, <<".">>, <<"(">>}
RuleAccounts == {"EXP-FUEL", "EXP-UNCLASSIFIED"}
Priorities == {0, 1}
ClassificationRule ==
  [pattern : Patterns, account_code : RuleAccounts, description : {"r"},
   gst_inclusive : {TRUE}, priority : Priorities]

RECURSIVE Lists(_, _)
Lists(S, n) ==
  IF n = 0 THEN {<<>>}
  ELSE Lists(S, n - 1) \cup {Append(l, x) : l \in Lists(S, n - 1), x \in S}

RuleLists == Lists(ClassificationRule, MaxRules)

-----------------------------------------------------------------------------
(* Applying a classification and learning a rule *)

\* apply_classification: a new JournalEntry with the rule's account code in
\* place of each entry whose account code contains the marker, and a new
\* Transaction of the id, date, description and these entries
apply_classification(transaction, match) ==
  new_transaction(transaction.transaction_id, transaction.date, transaction.description,
                  [n \in DOMAIN transaction.entries |->
                     IF has_marker(transaction.entries[n].account_code)
                       THEN JournalEntry(match.rule.account_code,
                                         transaction.entries[n].debit,
                                         transaction.entries[n].credit)
                       ELSE transaction.entries[n]])

\* the Transaction classify_and_review builds for a manual classification:
\* entry.model_copy(update={"account_code": account_code}) for the marked entries
manual_classification(transaction, account_code) ==
  new_transaction(transaction.transaction_id, transaction.date, transaction.description,
                  [n \in DOMAIN transaction.entries |->
                     IF has_marker(transaction.entries[n].account_code)
                       THEN [transaction.entries[n] EXCEPT !.account_code = account_code]
                       ELSE transaction.entries[n]])

\* the characters [A-Z] of the regular expression
AZ == {"A", "B", "C", "D", "E", "G", "I", "L", "O", "S", "W"}
whitespace == {" "}

\* re.findall(r"[A-Z]+", s): the maximal runs of letters, word being the run so far
RECURSIVE findall_AZ(_, _)
findall_AZ(s, word) ==
  IF s = <<>> THEN (IF word = <<>> THEN <<>> ELSE <<word>>)
  ELSE IF Head(s) \in AZ THEN findall_AZ(Tail(s), Append(word, Head(s)))
  ELSE (IF word = <<>> THEN <<>> ELSE <<word>>) \o findall_AZ(Tail(s), <<>>)

\* str.split() with no argument: the maximal runs of characters that are not whitespace
RECURSIVE split(_, _)
split(s, word) ==
  IF s = <<>> THEN (IF word = <<>> THEN <<>> ELSE <<word>>)
  ELSE IF Head(s) \notin whitespace THEN split(Tail(s), Append(word, Head(s)))
  ELSE (IF word = <<>> THEN <<>> ELSE <<word>>) \o split(Tail(s), <<>>)

stop_words == {<<"S", "T", "O", "R", "E">>, <<"L", "T", "D">>}
known_single_merchants == {<<"I", "G", "A">>, <<"A", "L", "D", "I">>}

\* " ".join(merchant_words)
RECURSIVE join(_)
join(ws) ==
  IF ws = <<>> THEN <<>>
  ELSE IF Len(ws) = 1 THEN Head(ws)
  ELSE Head(ws) \o <<" ">> \o join(Tail(ws))

\* the loop of _extract_merchant_pattern over words: it stops at a stop word,
\* takes the first word, and takes the second unless the first is a known merchant
merchant_words(words) ==
  IF Head(words) \in stop_words THEN <<>>
  ELSE IF Len(words) = 1 THEN <<words[1]>>
  ELSE IF words[2] \in stop_words THEN <<words[1]>>
  ELSE IF words[1] \in known_single_merchants THEN <<words[1]>>
  ELSE <<words[1], words[2]>>

\* _extract_merchant_pattern: the exception raised if any, and the pattern
_extract_merchant_pattern(description) ==
  LET words == findall_AZ(upper(description), <<>>) IN
  IF words = <<>>
    THEN IF split(description, <<>>) = <<>>
           THEN [raised |-> "IndexError", pattern |-> <<>>]
           ELSE [raised |-> NoneStr, pattern |-> Head(split(description, <<>>))]
  ELSE IF merchant_words(words) = <<>>
    THEN [raised |-> NoneStr, pattern |-> words[1]]
    ELSE [raised |-> NoneStr, pattern |-> join(merchant_words(words))]

\* learn_rule with the default priority 0: the exception raised if any, and
\* <<ClassificationRule>>
learn_rule(transaction, account_code, description, gst_inclusive) ==
  LET extracted == _extract_merchant_pattern(transaction.description)
      rule == [pattern |-> extracted.pattern, account_code |-> account_code,
               description |-> description, gst_inclusive |-> gst_inclusive,
               priority |-> 0]
  IN IF extracted.raised # NoneStr THEN [raised |-> extracted.raised, rule |-> <<>>]
     ELSE IF ~rule_constructed(rule) THEN [raised |-> "ValidationError", rule |-> <<>>]
     ELSE [raised |-> NoneStr, rule |-> <<rule>>]

-----------------------------------------------------------------------------
(* The classification workflow.  An optional argument or field is <<>> for   *)
(* None and <<value>> otherwise.                                             *)

ClassificationResult(classified_transaction, match, decision, learned_rule) ==
  [raised |-> NoneStr, classified_transaction |-> classified_transaction,
   match |-> match, decision |-> decision, learned_rule |-> learned_rule]

\* the call raised: no ClassificationResult is returned
NoResult(raised) ==
  [raised |-> raised, classified_transaction |-> <<>>, match |-> <<>>,
   decision |-> NoneStr, learned_rule |-> <<>>]

classify_and_review(transaction, rules, auto_accept_threshold, user_accepted, user_classification) ==
  LET found == classify_transaction(transaction, rules) IN
  IF found.raised # NoneStr THEN NoResult(found.raised)
  ELSE IF found.match = <<>> /\ user_classification # <<>>
    THEN \* case 1
         LET uc == user_classification[1]
             learned == learn_rule(transaction, uc.account_code, uc.description,
                                   uc.gst_inclusive)
         IN IF learned.raised # NoneStr THEN NoResult(learned.raised)
            ELSE ClassificationResult(
                   <<manual_classification(transaction, uc.account_code)>>,
                   <<>>, "MANUAL", learned.rule)
  ELSE IF found.match = <<>>
    THEN \* case 2
         ClassificationResult(<<>>, <<>>, "PENDING", <<>>)
  ELSE LET match == found.match[1]
           classified_txn == apply_classification(transaction, match)
       IN
       IF match.confidence >= auto_accept_threshold
         THEN \* case 3
              ClassificationResult(<<classified_txn>>, <<match>>, "ACCEPTED", <<>>)
       ELSE IF user_accepted = <<>>
         THEN \* case 4
              ClassificationResult(<<classified_txn>>, <<match>>, "PENDING", <<>>)
       ELSE IF user_accepted[1]
         THEN \* case 5
              LET learned == learn_rule(transaction, match.rule.account_code,
                                        match.rule.description, match.rule.gst_inclusive)
              IN IF learned.raised # NoneStr THEN NoResult(learned.raised)
                 ELSE ClassificationResult(<<classified_txn>>, <<match>>, "ACCEPTED",
                                           learned.rule)
       ELSE IF user_classification # <<>>
         THEN \* case 6
              LET uc == user_classification[1]
                  learned == learn_rule(transaction, uc.account_code, uc.description,
                                        uc.gst_inclusive)
              IN IF learned.raised # NoneStr THEN NoResult(learned.raised)
                 ELSE ClassificationResult(
                        <<manual_classification(transaction, uc.account_code)>>,
                        <<match>>, "REJECTED", learned.rule)
       ELSE ClassificationResult(<<classified_txn>>, <<match>>, "PENDING", <<>>)

-----------------------------------------------------------------------------
(* Matching against the rules of the rules file *)

\* save_rules: the file is written anew with the rules given
save_rules(rules) ==
  /\ pc.at = "idle"
  /\ rules_file' = rules
  /\ Called("save_rules", "ok")
  /\ UNCHANGED <<today, clients_file, txn_files, settings_file, config_settings_file, quote_files,
                 invoice_files, job_files, memory, heap, handles, history, pc>>

\* load_rules: the rules of the file, in its order (none if there is no file)
load_rules == rules_file

\* the descriptions matched: one that several patterns match, one that only
\* "." matches, a blank and an opening parenthesis
MatchDescriptions == {<<"A", "b">>, <<"b">>, <<" ">>, <<"(">>}

\* find_best_match(description, load_rules(rules_file)): what it raised, if
\* anything, and what it returned
call_find_best_match(description) ==
  /\ pc.at = "idle"
  /\ LET found == find_best_match(description, load_rules) IN
     last' = [op |-> "find_best_match",
              result |-> IF found.raised = NoneStr THEN "ok" ELSE found.raised,
              dropped |-> 0, detail |-> NoneStr,
              description |-> description, value |-> found.match]
  /\ UNCHANGED <<today, disk, memory, heap, handles, history, pc>>

NextMatch ==
  \/ \E rules \in RuleLists : save_rules(rules)
  \/ \E description \in MatchDescriptions : call_find_best_match(description)

SpecMatch == Init /\ [][NextMatch]_vars

\* the pattern is found somewhere in the description, letters compared
\* without regard to case and "." standing for any character
Occurs(pattern, description) ==
  \E i \in 1..Len(description) :
    /\ i + Len(pattern) - 1 <= Len(description)
    /\ \A k \in 1..Len(pattern) :
         pattern[k] = "." \/ lower(<<pattern[k]>>) = lower(<<description[i + k - 1]>>)

\* the places in the list of the rules whose pattern matches the description
Matching(rules, description) ==
  {n \in DOMAIN rules : Occurs(rules[n].pattern, description)}

\* the first of the matching rules that have the highest priority among them
Best(rules, description) ==
  CHOOSE n \in Matching(rules, description) :
    \A m \in Matching(rules, description) :
      \/ rules[n].priority > rules[m].priority
      \/ rules[n].priority = rules[m].priority /\ n <= m

\* C18: find_best_match returns None exactly when no rule's pattern matches
\* the description, and otherwise the match of the first rule in the list
\* among the matching rules of the highest priority.
C18_BestMatch ==
  last.op = "find_best_match" =>
    /\ last.result = "ok"
    /\ (last.value = <<>>) <=> (Matching(rules_file, last.description) = {})
    /\ last.value # <<>> =>
         last.value[1].rule = rules_file[Best(rules_file, last.description)]

-----------------------------------------------------------------------------
(* The review of one transaction: classify_and_review and                    *)
(* apply_classification on the arguments a caller gives                      *)

\* the answers of the user: user_accepted and user_classification
UserAccepted == {<<>>, <<TRUE>>, <<FALSE>>}
UserClassifications ==
  {<<>>, <<[account_code |-> "EXP-FUEL", description |-> "r", gst_inclusive |-> TRUE]>>}

\* the rule lists, the thresholds and the transactions of a review; the
\* confidence of a match is 1, so the thresholds are one below, at and above it
ReviewRules ==
  {r \in ClassificationRule : r.pattern \in {<<".">>, <<"A", "b">>, <<"(">>} /\ r.priority = 0}
ReviewRuleLists == Lists(ReviewRules, 1)
ReviewThresholds == {0, 1, 2}
\* the transactions of a review: as Transaction(...) builds them from the four
\* fields, and with the GST flag, the notes and the receipt set as well
PlainReviewTransactions ==
  {new_transaction("T1", 2, description, entries) :
     description \in MatchDescriptions,
     entries \in {<<JournalEntry("EXP-UNCLASSIFIED", 1, 0), JournalEntry("BANK", 0, 1)>>,
                  <<JournalEntry("BANK", 1, 0), JournalEntry("INC-UNCLASSIFIED", 0, 1)>>}}
ReviewTransactions ==
  PlainReviewTransactions
    \cup {[t EXCEPT !.gst_inclusive = TRUE, !.notes = "n", !.receipt_path = "r.pdf"] :
            t \in {x \in PlainReviewTransactions : x.description = <<"b">>}}

\* classify_and_review(transaction, rules, auto_accept_threshold, user_accepted,
\* user_classification): what it raised, if anything, and what it returned
call_classify_and_review(transaction, rules, auto_accept_threshold, user_accepted, user_classification) ==
  /\ pc.at = "idle"
  /\ LET returned == classify_and_review(transaction, rules, auto_accept_threshold,
                                         user_accepted, user_classification)
     IN last' = [op |-> "classify_and_review",
                 result |-> IF returned.raised = NoneStr THEN "ok" ELSE returned.raised,
                 dropped |-> 0, detail |-> NoneStr,
                 transaction |-> transaction, rules |-> rules,
                 auto_accept_threshold |-> auto_accept_threshold,
                 user_accepted |-> user_accepted,
                 user_classification |-> user_classification,
                 value |-> returned]
  /\ UNCHANGED <<today, disk, memory, heap, handles, history, pc>>

\* apply_classification(transaction, match_pattern(transaction.description, rule))
\* for a rule that matches the transaction
call_apply_classification(transaction, rule) ==
  /\ pc.at = "idle"
  /\ pattern_compiles(rule.pattern)
  /\ match_pattern(transaction.description, rule) # <<>>
  /\ LET match == match_pattern(transaction.description, rule)[1] IN
     last' = [op |-> "apply_classification", result |-> "ok",
              dropped |-> 0, detail |-> NoneStr,
              transaction |-> transaction, match |-> match,
              value |-> apply_classification(transaction, match)]
  /\ UNCHANGED <<today, disk, memory, heap, handles, history, pc>>

NextReview ==
  \/ \E transaction \in ReviewTransactions, rules \in ReviewRuleLists,
        auto_accept_threshold \in ReviewThresholds, user_accepted \in UserAccepted,
        user_classification \in UserClassifications :
       call_classify_and_review(transaction, rules, auto_accept_threshold, user_accepted,
                                user_classification)
  \/ \E transaction \in ReviewTransactions, rule \in ReviewRules :
       call_apply_classification(transaction, rule)

SpecReview == Init /\ [][NextReview]_vars

\* C19: classify_and_review returns PENDING without a rule when nothing matches
\* and no manual classification is given; MANUAL with a rule for the manual
\* account when nothing matches and one is given; ACCEPTED without a rule when
\* a rule matches and the confidence 1.0 reaches the threshold; below the
\* threshold PENDING without a rule while user_accepted is None, ACCEPTED with
\* a rule for the matched rule's account when the user accepts, REJECTED with a
\* rule for the alternative account when the user rejects with an alternative;
\* and an outcome of the last three kinds only with a threshold above 1.0.
C19_Decisions ==
  last.op = "classify_and_review" =>
    LET matched == Matching(last.rules, last.transaction.description) # {}
        below == matched /\ 1 < last.auto_accept_threshold
        manual == last.user_classification
        r == last.value
    IN
    /\ last.result = "ok"
    /\ ~matched /\ manual = <<>> =>
         r.decision = "PENDING" /\ r.learned_rule = <<>>
    /\ ~matched /\ manual # <<>> =>
         /\ r.decision = "MANUAL"
         /\ r.learned_rule # <<>>
         /\ r.learned_rule[1].account_code = manual[1].account_code
    /\ matched /\ 1 >= last.auto_accept_threshold =>
         r.decision = "ACCEPTED" /\ r.learned_rule = <<>>
    /\ below /\ last.user_accepted = <<>> =>
         r.decision = "PENDING" /\ r.learned_rule = <<>>
    /\ below /\ last.user_accepted = <<TRUE>> =>
         /\ r.decision = "ACCEPTED"
         /\ r.learned_rule # <<>>
         /\ r.learned_rule[1].account_code
              = last.rules[Best(last.rules, last.transaction.description)].account_code
    /\ below /\ last.user_accepted = <<FALSE>> /\ manual # <<>> =>
         /\ r.decision = "REJECTED"
         /\ r.learned_rule # <<>>
         /\ r.learned_rule[1].account_code = manual[1].account_code
    /\ matched /\ (r.decision \in {"PENDING", "REJECTED"} \/ r.learned_rule # <<>>) =>
         last.auto_accept_threshold > 1

\* C20: the transaction apply_classification returns for a matching rule has
\* no entry whose account code contains the marker, so that the selection of
\* the unclassified transactions leaves it out, and applying the same match to
\* it again returns an equal transaction.
C20_NoMarkerLeft ==
  last.op = "apply_classification" =>
    /\ \A n \in DOMAIN last.value.entries :
         last.value.entries[n].account_code \notin Marked
    /\ apply_classification(last.value, last.match) = last.value

-----------------------------------------------------------------------------
(* The batch: process_unclassified_transactions, one transaction of the     *)
(* list at a time                                                            *)

MaxBatch == 2        \* transactions in the list a caller passes

BatchTransactions ==
  {new_transaction(transaction_id, 2, description,
                   <<JournalEntry("EXP-UNCLASSIFIED", 1, 0), JournalEntry("BANK", 0, 1)>>) :
     transaction_id \in TxnIds, description \in {<<"A", "b">>, <<"b">>}}
BatchRuleLists ==
  Lists({r \in ReviewRules : r.account_code = "EXP-FUEL" /\ r.pattern # <<".">>}, 1)

\* the call: results = {}, learned_rules = []
process_unclassified_transactions(txns, rules, auto_accept_threshold) ==
  /\ pc.at = "idle"
  /\ pc' = [at |-> "batch", transactions |-> txns, rules |-> rules, i |-> 0,
            auto_accept_threshold |-> auto_accept_threshold,
            results |-> <<>>, learned_rules |-> <<>>, writes |-> 0]
  /\ Called("process_unclassified_transactions", "called")
  /\ UNCHANGED <<today, disk, memory, heap, handles, history>>

\* the end of the call, with the exception it raised if any
batch_returns(result, results, learned_rules, writes) ==
  /\ pc' = [at |-> "idle"]
  /\ last' = [op |-> "process_unclassified_transactions", result |-> result,
              dropped |-> 0, detail |-> NoneStr,
              transactions |-> pc.transactions, rules |-> pc.rules,
              results |-> results, learned_rules |-> learned_rules, writes |-> writes]

\* save_rules is called only if learned_rules is not empty
rules_saved_always(learned_rules) == TRUE
rules_saved(learned_rules) == learned_rules # <<>>

\* one turn of the loop, for the next transaction of the list
process_unclassified_transactions_loop ==
  /\ pc.at = "batch"
  /\ pc.i < Len(pc.transactions)
  /\ LET txn == pc.transactions[pc.i + 1]
         result == classify_and_review(txn, pc.rules, pc.auto_accept_threshold, <<>>, <<>>)
     IN IF result.raised # NoneStr
          THEN batch_returns(result.raised, pc.results, pc.learned_rules, pc.writes)
          ELSE /\ pc' = [pc EXCEPT
                           !.i = @ + 1,
                           !.results = DictSet(@, txn.transaction_id, result),
                           !.learned_rules = @ \o result.learned_rule]
               /\ UNCHANGED last
  /\ UNCHANGED <<today, disk, memory, heap, handles, history>>

\* after the loop: the rules and the learned rules are saved, if any was
\* learned, and the results returned
process_unclassified_transactions_save ==
  /\ pc.at = "batch"
  /\ pc.i = Len(pc.transactions)
  /\ IF rules_saved(pc.learned_rules)
       THEN /\ rules_file' = pc.rules \o pc.learned_rules
            /\ batch_returns("ok", pc.results, pc.learned_rules, pc.writes + 1)
       ELSE /\ UNCHANGED rules_file
            /\ batch_returns("ok", pc.results, pc.learned_rules, pc.writes)
  /\ UNCHANGED <<today, clients_file, txn_files, settings_file, config_settings_file, quote_files,
                 invoice_files, job_files, memory, heap, handles, history>>

NextBatch ==
  \/ \E rules \in BatchRuleLists : pc.at = "idle" /\ save_rules(rules)
  \/ \E txns \in Lists(BatchTransactions, MaxBatch), rules \in BatchRuleLists,
        auto_accept_threshold \in ReviewThresholds :
       process_unclassified_transactions(txns, rules, auto_accept_threshold)
  \/ process_unclassified_transactions_loop
  \/ process_unclassified_transactions_save

SpecBatch == Init /\ [][NextBatch]_vars

\* the batch has returned
BatchDone == last.op = "process_unclassified_transactions" /\ last.result = "ok"

-----------------------------------------------------------------------------
(* Classification over the stored transactions: the functions of             *)
(* storage/transaction_store.py work on the year file the registry writes    *)

\* load_transactions: every line of the year file, in order
load_transactions(file) == [i \in DOMAIN file |-> txn_validate_json(file[i])]

\* transaction_exists of the store: some line of the year file has the id
store_transaction_exists(txn_id, file) ==
  \E i \in DOMAIN file : load_transactions(file)[i].transaction_id = txn_id

\* update_transaction of the store: the file rewritten with txn in place of
\* the first transaction of the same id
store_update_transaction(txn, file) ==
  LET loaded == load_transactions(file)
      first == Min({i \in DOMAIN loaded : loaded[i].transaction_id = txn.transaction_id})
  IN [i \in DOMAIN loaded |->
        IF i = first THEN txn_dump_json(txn) ELSE txn_dump_json(loaded[i])]

\* the rule lists and the answers of the user in the ledger
LedgerRuleLists ==
  Lists({r \in ClassificationRule :
           r.pattern = <<".">> /\ r.priority = 0 /\ r.account_code = "EXP-FUEL"}, 1)
Thresholds == {1, 2}

\* the calls of the ledger: <<auto_accept_threshold, user_accepted, user_classification>>
LedgerReviews ==
  {r \in Thresholds \X UserAccepted \X UserClassifications :
     \/ r[1] = 1 /\ r[2] = <<>>
     \/ r[1] = 2 /\ r[2] = <<TRUE>> /\ r[3] = <<>>
     \/ r[1] = 2 /\ r[2] = <<FALSE>> /\ r[3] # <<>>}

\* classify_and_save
classify_and_save(transaction, rules, auto_accept_threshold, user_accepted, user_classification) ==
  /\ pc.at = "idle"
  /\ LET result == classify_and_review(transaction, rules, auto_accept_threshold,
                                       user_accepted, user_classification)
         fy == get_financial_year(transaction.date)
     IN
     IF result.raised # NoneStr
       THEN /\ Raised("classify_and_save", result.raised, NoneStr)
            /\ UNCHANGED txn_files
     ELSE IF result.classified_transaction # <<>>
             /\ result.decision \in {"ACCEPTED", "REJECTED", "MANUAL"}
       THEN IF store_transaction_exists(transaction.transaction_id, txn_files[fy])
              THEN /\ txn_files' = [txn_files EXCEPT ![fy] =
                                      store_update_transaction(
                                        result.classified_transaction[1], @)]
                   /\ Called("classify_and_save", result.decision)
              ELSE /\ TotalLines < MaxLines
                   /\ txn_files' = [txn_files EXCEPT ![fy] =
                                      Append(@, txn_dump_json(
                                                  result.classified_transaction[1]))]
                   /\ Called("classify_and_save", result.decision)
       ELSE /\ Called("classify_and_save", result.decision)
            /\ UNCHANGED txn_files
  /\ UNCHANGED <<today, clients_file, settings_file, config_settings_file, rules_file, quote_files,
                 invoice_files, job_files, memory, heap, handles, history, pc>>

MaxLedgerLines == 2  \* lines appended to the year files by the ledger's calls

NextLedger ==
  \/ /\ TotalLines < MaxLedgerLines
     /\ \E description \in LedgerDescriptions, entries \in EntriesGiven,
           update \in BOOLEAN :
          save_constructed("T1", 2, description, entries, update)
  \/ /\ TotalLines < MaxLedgerLines
     /\ \E bank_txn \in BankRows, with_metadata \in BOOLEAN :
          import_row(bank_txn, "T1", with_metadata)
  \/ /\ TotalLines < MaxLedgerLines
     /\ \E id \in TxnIds, d \in Dates, new_id \in TxnIds : void_transaction(id, d, new_id)
  \/ \E transaction \in Range(get_all_transactions), rules \in LedgerRuleLists,
        review \in LedgerReviews :
       classify_and_save(transaction, rules, review[1], review[2], review[3])
  \/ reload

SpecLedger == Init /\ [][NextLedger]_vars

\* the total of one side, "debit" or "credit", of the first n entries
RECURSIVE TotalOf(_, _, _)
TotalOf(entries, side, n) ==
  IF n = 0 THEN 0 ELSE entries[n][side] + TotalOf(entries, side, n - 1)

\* at least two entries, total debits equal to total credits, and in each
\* entry no negative amount and exactly one of debit and credit not zero
DoubleEntry(entries) ==
  /\ Len(entries) >= 2
  /\ TotalOf(entries, "debit", Len(entries)) = TotalOf(entries, "credit", Len(entries))
  /\ \A n \in DOMAIN entries :
       /\ entries[n].debit >= 0
       /\ entries[n].credit >= 0
       /\ (entries[n].debit = 0) # (entries[n].credit = 0)

\* the transactions the registry holds in memory and those on the lines of its year files
HeldTransactions ==
  Range(get_all_transactions)
    \cup UNION {Range(load_transactions(txn_files[fy])) : fy \in FYs}

\* C14: the constructor admits only entries that form a double entry, the
\* entries convert_to_transaction builds for a bank row and those void_transaction
\* builds from a held transaction form one, and so do the entries of every
\* transaction the registry holds after saves, updates, voids, bank imports and
\* classifications.
C14_DoubleEntry ==
  /\ \A description \in LedgerDescriptions, entries \in EntriesGiven :
       transaction_constructed(description, entries) => DoubleEntry(entries)
  /\ \A bank_txn \in BankRows :
       DoubleEntry(convert_entries(bank_txn, "BANK", "EXP-UNCLASSIFIED", "INC-UNCLASSIFIED"))
  /\ \A t \in HeldTransactions :
       /\ DoubleEntry(t.entries)
       /\ DoubleEntry(reversed_entries(t.entries))

\* a bank row was imported and classified, and the classified transaction voided
C14_Witness ==
  /\ last.op = "void_transaction"
  /\ last.result = "ok"
  /\ \E t \in Range(get_all_transactions), v \in Range(get_all_transactions) :
       /\ t.entries[1].account_code = "EXP-FUEL"
       /\ v.transaction_id # t.transaction_id
       /\ v.entries = reversed_entries(t.entries)

-----------------------------------------------------------------------------
(* The registry over its version files, with a caller that keeps the objects *)
(* it saves                                                                  *)

\* Quote(...), Job(...), Invoice(...): the fields given, the others at their defaults
Quote(quote_id, client_id, date_created, date_valid_until, line_items) ==
  [quote_id |-> quote_id, client_id |-> client_id, date_created |-> date_created,
   date_sent |-> None, date_accepted |-> None, date_rejected |-> None,
   date_valid_until |-> date_valid_until, line_items |-> line_items, version |-> 1]

Job(job_id, quote_id, client_id, date_accepted, scheduled_date) ==
  [job_id |-> job_id, quote_id |-> quote_id, client_id |-> client_id,
   date_accepted |-> date_accepted, scheduled_date |-> scheduled_date,
   date_started |-> None, date_completed |-> None, date_invoiced |-> None]

Invoice(invoice_id, job_id, client_id, date_created, date_issued, date_due, line_items) ==
  [invoice_id |-> invoice_id, job_id |-> job_id, client_id |-> client_id,
   date_created |-> date_created, date_issued |-> date_issued, date_due |-> date_due,
   date_paid |-> None, date_cancelled |-> None, line_items |-> line_items, version |-> 1]

CreatedDates == {2, 3}   \* one day in each financial year
Versions == 1..(MaxVersionFiles + 1)

NextVersioned ==
  \/ \E d \in CreatedDates :
       construct("quote", Quote("Q1", <<"a", "b">>, d, 3, "L1"))
  \/ assign("quote", "line_items", "L2")
  \/ save_quote
  \/ \E v \in {None} \cup Versions :
       fetch("quote", has_quote("Q1", v), get_quote_ref("Q1", v))
  \/ construct("invoice", Invoice("I1", NoneStr, <<"a", "b">>, 2, None, 3, "L1"))
  \/ assign("invoice", "date_issued", 3)
  \/ save_invoice
  \/ \E v \in {None} \cup Versions :
       fetch("invoice", has_invoice("I1", v), get_invoice_ref("I1", v))
  \/ construct("job", Job("J1", NoneStr, <<"a", "b">>, 2, None))
  \/ assign("job", "date_started", today)
  \/ save_job
  \/ update_job
  \/ \E v \in {None} \cup Versions :
       fetch("job", has_job("J1", v), get_job_ref("J1", v))
  \/ reload
  \/ new_registry

SpecVersioned == Init /\ [][NextVersioned]_vars

-----------------------------------------------------------------------------
(* The derived statuses: a caller constructs a Quote, an Invoice or a Job,  *)
(* sets its date fields and reads its status on some day                    *)

\* x.status, for the object of class var the caller holds
read_status(var) ==
  /\ pc.at = "idle"
  /\ handles[var] # NoRef
  /\ LET x == heap[handles[var]] IN
     Called(var \o ".status",
            IF var = "quote" THEN quote_status(x, today)
            ELSE IF var = "invoice" THEN invoice_status(x, today)
            ELSE job_status(x))
  /\ UNCHANGED <<today, disk, memory, heap, handles, history, pc>>

OptionalDates == {None} \cup Dates

NextStatus ==
  \/ AdvanceDay
  \/ \E date_valid_until \in Dates :
       construct("quote", Quote("Q1", <<"a", "b">>, 1, date_valid_until, "L1"))
  \/ \E field \in {"date_sent", "date_accepted", "date_rejected"}, d \in OptionalDates :
       assign("quote", field, d)
  \/ \E date_due \in Dates :
       construct("invoice", Invoice("I1", NoneStr, <<"a", "b">>, 1, None, date_due, "L1"))
  \/ \E field \in {"date_issued", "date_paid", "date_cancelled"}, d \in OptionalDates :
       assign("invoice", field, d)
  \/ construct("job", Job("J1", NoneStr, <<"a", "b">>, 1, None))
  \/ \E field \in {"date_started", "date_completed", "date_invoiced"}, d \in OptionalDates :
       assign("job", field, d)
  \/ \E var \in {"quote", "invoice", "job"} : read_status(var)

SpecStatus == Init /\ [][NextStatus]_vars

\* the object whose status the caller has just read
StatusRead(var) == last.op = var \o ".status" /\ handles[var] # NoRef
Held(var) == heap[handles[var]]

\* C15: the status read from a quote is "accepted" if date_accepted is set;
\* otherwise "rejected" if date_rejected is set; otherwise "expired" if today is
\* after date_valid_until; otherwise "sent" if date_sent is set; otherwise
\* "draft"; on the day date_valid_until itself it is not "expired".
C15_QuoteStatus ==
  StatusRead("quote") =>
    LET q == Held("quote")
        decided == q.date_accepted # None \/ q.date_rejected # None
    IN
    /\ q.date_accepted # None => last.result = "accepted"
    /\ q.date_accepted = None /\ q.date_rejected # None => last.result = "rejected"
    /\ ~decided /\ today > q.date_valid_until => last.result = "expired"
    /\ ~decided /\ today <= q.date_valid_until /\ q.date_sent # None => last.result = "sent"
    /\ ~decided /\ today <= q.date_valid_until /\ q.date_sent = None => last.result = "draft"
    /\ today = q.date_valid_until => last.result # "expired"

\* the status of a sent quote is read on the day date_valid_until
C15_Witness ==
  /\ StatusRead("quote")
  /\ Held("quote").date_sent # None
  /\ Held("quote").date_accepted = None
  /\ Held("quote").date_rejected = None
  /\ today = Held("quote").date_valid_until
  /\ last.result = "sent"

\* C16: the status read from an invoice is "cancelled" if date_cancelled is
\* set; otherwise "paid" if date_paid is set; otherwise, if date_issued is set,
\* "overdue" when today is after date_due and "sent" when it is not; otherwise
\* "draft", also after the due date; on the day date_due it is not "overdue".
C16_InvoiceStatus ==
  StatusRead("invoice") =>
    LET i == Held("invoice")
        closed == i.date_cancelled # None \/ i.date_paid # None
    IN
    /\ i.date_cancelled # None => last.result = "cancelled"
    /\ i.date_cancelled = None /\ i.date_paid # None => last.result = "paid"
    /\ ~closed /\ i.date_issued # None /\ today > i.date_due => last.result = "overdue"
    /\ ~closed /\ i.date_issued # None /\ today <= i.date_due => last.result = "sent"
    /\ ~closed /\ i.date_issued = None => last.result = "draft"
    /\ today = i.date_due => last.result # "overdue"

\* the status of an invoice never issued is read after its due date
C16_Witness ==
  /\ StatusRead("invoice")
  /\ Held("invoice").date_issued = None
  /\ Held("invoice").date_paid = None
  /\ Held("invoice").date_cancelled = None
  /\ today > Held("invoice").date_due
  /\ last.result = "draft"

\* C17: the status read from a job is "invoiced" if date_invoiced is set;
\* otherwise "completed" if date_completed is set; otherwise "in_progress" if
\* date_started is set; otherwise "scheduled", on whatever day it is read.
C17_JobStatus ==
  StatusRead("job") =>
    LET j == Held("job") IN
    /\ j.date_invoiced # None => last.result = "invoiced"
    /\ j.date_invoiced = None /\ j.date_completed # None => last.result = "completed"
    /\ j.date_invoiced = None /\ j.date_completed = None /\ j.date_started # None
         => last.result = "in_progress"
    /\ j.date_invoiced = None /\ j.date_completed = None /\ j.date_started = None
         => last.result = "scheduled"

\* the status of a job started and completed, not invoiced, is read on a later day
C17_Witness ==
  /\ StatusRead("job")
  /\ Held("job").date_started # None
  /\ Held("job").date_completed # None
  /\ Held("job").date_invoiced = None
  /\ today > Held("job").date_completed
  /\ last.result = "completed"

-----------------------------------------------------------------------------
(* The workflow functions: each constructs a registry of its own over the    *)
(* data directory and writes through it                                     *)

EmptyList == "[]"   \* the list []

\* _get_latest_quote / _get_latest_job on the registry l the function loaded
found_latest_quote(l, quote_id) == quote_id \in DOMAIN l.latest_quotes
_get_latest_quote(l, quote_id) == l.objs[l.quotes[<<quote_id, l.latest_quotes[quote_id]>>]]
found_latest_job(l, job_id) == job_id \in DOMAIN l.latest_jobs
_get_latest_job(l, job_id) == l.objs[l.jobs[<<job_id, l.latest_jobs[job_id]>>]]

NextVersion(latest, id) == IF id \in DOMAIN latest THEN latest[id] + 1 ELSE 1

\* the version files a workflow may fill the directory up to
MaxFlowFiles == MaxVersionFiles + 2

\* quote.status != QuoteStatus.SENT, the case in which a quote is not accepted
accept_refused_unless_draft(quote) == quote_status(quote, today) = "draft"

accept_refused(quote) == quote_status(quote, today) # "sent"

\* accept_quote_to_job(quote_id, data_dir, scheduled_date), up to and
\* including storage.save_quote(accepted_quote)
accept_quote_to_job(quote_id, scheduled_date) ==
  /\ pc.at = "idle"
  /\ LET l == _load_all_data IN
     /\ clients_file' = l.clients_file
     /\ txn_files' = l.txn_files
     /\ IF ~found_latest_quote(l, quote_id)
          THEN /\ Raised("accept_quote_to_job", "FileNotFoundError", quote_id)
               /\ UNCHANGED <<quote_files, history, pc>>
          ELSE LET quote == _get_latest_quote(l, quote_id) IN
               IF accept_refused(quote)
                 THEN /\ Raised("accept_quote_to_job", "ValueError",
                                quote_status(quote, today))
                      /\ UNCHANGED <<quote_files, history, pc>>
                 ELSE LET accepted_quote == [quote EXCEPT !.date_accepted = today]
                          version == NextVersion(l.latest_quotes, quote_id)
                      IN /\ VersionFiles + 2 <= MaxFlowFiles
                         /\ quote_files' =
                              Put(quote_files,
                                  _get_quote_path(quote_id, accepted_quote.date_created, version),
                                  quote_dump_json(accepted_quote, today))
                         /\ history' = Saved("quote", accepted_quote, quote_id)
                         /\ pc' = [at |-> "save_job", quote |-> quote,
                                   scheduled_date |-> scheduled_date,
                                   latest_jobs |-> l.latest_jobs]
                         /\ Called("accept_quote_to_job", "save_quote")
  /\ UNCHANGED <<today, invoice_files, job_files, settings_file, config_settings_file, rules_file, memory, heap, handles>>

\* the rest of accept_quote_to_job: job = Job(...), whose job_id is the one
\* generate_job_id draws, and storage.save_job(job)
accept_quote_to_job_save_job(job_id) ==
  /\ pc.at = "save_job"
  /\ LET job == Job(job_id, pc.quote.quote_id, pc.quote.client_id, today, pc.scheduled_date)
         version == NextVersion(pc.latest_jobs, job_id)
     IN /\ job_files' = Put(job_files, _get_job_path(job_id, job.date_accepted, version),
                            job_dump_json(job))
        /\ history' = Saved("job", job, job_id)
  /\ pc' = [at |-> "idle"]
  /\ Called("accept_quote_to_job", "ok")
  /\ UNCHANGED <<today, clients_file, txn_files, quote_files, invoice_files, settings_file, config_settings_file, rules_file,
                 memory, heap, handles>>

\* job.status != JobStatus.COMPLETED, the case in which a job is not invoiced
invoice_refused_unless_scheduled(job) == job_status(job) = "scheduled"

invoice_refused(job) == job_status(job) # "completed"

\* Invoice(...) is refused by its validation: line_items has min_length 1
invoice_invalid(line_items) == line_items = EmptyList

\* the Invoice complete_job_to_invoice constructs, were it due the day it is issued
new_invoice_due_at_once(invoice_id, job, line_items, due_days) ==
  Invoice(invoice_id, job.job_id, job.client_id, today, today, today, line_items)

\* the Invoice complete_job_to_invoice constructs; invoice_id is the one
\* generate_invoice_id draws
new_invoice(invoice_id, job, line_items, due_days) ==
  Invoice(invoice_id, job.job_id, job.client_id, today, today, today + due_days, line_items)

\* complete_job_to_invoice(job_id, data_dir, line_items, due_days), up to and
\* including storage.save_invoice(invoice)
complete_job_to_invoice(job_id, line_items, due_days) ==
  /\ pc.at = "idle"
  /\ LET l == _load_all_data
         op == "complete_job_to_invoice"
     IN
     /\ clients_file' = l.clients_file
     /\ txn_files' = l.txn_files
     /\ IF ~found_latest_job(l, job_id)
          THEN /\ Raised(op, "FileNotFoundError", job_id)
               /\ UNCHANGED <<invoice_files, history, pc>>
          ELSE LET job == _get_latest_job(l, job_id) IN
          IF invoice_refused(job)
            THEN /\ Raised(op, "ValueError", job_status(job))
                 /\ UNCHANGED <<invoice_files, history, pc>>
          ELSE IF line_items = NoneStr /\ job.quote_id = NoneStr
            THEN /\ Raised(op, "ValueError", "no line_items")
                 /\ UNCHANGED <<invoice_files, history, pc>>
          ELSE IF line_items = NoneStr /\ ~found_latest_quote(l, job.quote_id)
            THEN /\ Raised(op, "FileNotFoundError", job.quote_id)
                 /\ UNCHANGED <<invoice_files, history, pc>>
          ELSE LET items == IF line_items = NoneStr
                              THEN _get_latest_quote(l, job.quote_id).line_items
                              ELSE line_items
               IN
               IF invoice_invalid(items)
                 THEN /\ Raised(op, "ValidationError", "line_items")
                      /\ UNCHANGED <<invoice_files, history, pc>>
                 ELSE \E invoice_id \in InvoiceIds :
                      LET invoice == new_invoice(invoice_id, job, items, due_days)
                          version == NextVersion(l.latest_invoices, invoice_id)
                      IN /\ VersionFiles + 2 <= MaxFlowFiles
                         /\ invoice_files' =
                              Put(invoice_files,
                                  _get_invoice_path(invoice_id, invoice.date_issued, version),
                                  invoice_dump_json(invoice, today))
                         /\ history' = Saved("invoice", invoice, invoice_id)
                         /\ pc' = [at |-> "update_job", job |-> job, today |-> today,
                                   latest_jobs |-> l.latest_jobs]
                         /\ Called(op, "save_invoice")
  /\ UNCHANGED <<today, quote_files, job_files, settings_file, config_settings_file, rules_file, memory, heap, handles>>

\* the rest of complete_job_to_invoice: storage.update_job(invoiced_job)
complete_job_to_invoice_update_job ==
  /\ pc.at = "update_job"
  /\ LET invoiced_job == [pc.job EXCEPT !.date_invoiced = pc.today]
         version == NextVersion(pc.latest_jobs, invoiced_job.job_id)
     IN /\ job_files' = Put(job_files,
                            _get_job_path(invoiced_job.job_id, invoiced_job.date_accepted,
                                          version),
                            job_dump_json(invoiced_job))
        /\ history' = Saved("job", invoiced_job, invoiced_job.job_id)
  /\ pc' = [at |-> "idle"]
  /\ Called("complete_job_to_invoice", "ok")
  /\ UNCHANGED <<today, clients_file, txn_files, quote_files, invoice_files, settings_file, config_settings_file, rules_file,
                 memory, heap, handles>>

\* storage = StorageRegistry(data_dir); storage.save_quote(Quote(...)), by a
\* caller that keeps neither the registry nor the quote
saved_quote(quote) ==
  /\ pc.at = "idle"
  /\ VersionFiles < MaxVersionFiles
  /\ LET l == _load_all_data
         version == NextVersion(l.latest_quotes, quote.quote_id)
     IN /\ clients_file' = l.clients_file
        /\ txn_files' = l.txn_files
        /\ quote_files' = Put(quote_files,
                              _get_quote_path(quote.quote_id, quote.date_created, version),
                              quote_dump_json(quote, today))
        /\ history' = Saved("quote", quote, quote.quote_id)
  /\ Called("save_quote", "ok")
  /\ UNCHANGED <<today, invoice_files, job_files, settings_file, config_settings_file, rules_file, memory, heap, handles, pc>>

\* storage = StorageRegistry(data_dir); storage.save_job(Job(...)), likewise
saved_job(job) ==
  /\ pc.at = "idle"
  /\ VersionFiles < MaxVersionFiles
  /\ LET l == _load_all_data
         version == NextVersion(l.latest_jobs, job.job_id)
     IN /\ clients_file' = l.clients_file
        /\ txn_files' = l.txn_files
        /\ job_files' = Put(job_files, _get_job_path(job.job_id, job.date_accepted, version),
                            job_dump_json(job))
        /\ history' = Saved("job", job, job.job_id)
  /\ Called("save_job", "ok")
  /\ UNCHANGED <<today, quote_files, invoice_files, settings_file, config_settings_file, rules_file, memory, heap, handles, pc>>

\* the quotes and jobs the application saves before a workflow runs
FlowQuotes ==
  {[Quote("Q1", <<"a", "b">>, 1, 2, "L1") EXCEPT !.date_sent = sent, !.date_rejected = rejected] :
     <<sent, rejected>> \in {<<None, None>>, <<1, None>>, <<1, 1>>}}

FlowJobs ==
  {[Job("J1", dates[1], <<"a", "b">>, 1, None)
      EXCEPT !.date_started = dates[2], !.date_completed = dates[3]] :
     dates \in {<<NoneStr, None, None>>, <<NoneStr, 1, None>>,
                <<NoneStr, 1, 1>>, <<"Q1", 1, 1>>}}

ScheduledDates == {None, 3}
DueDays == {1}
LineItemsGiven == {NoneStr, EmptyList, "L2"}

NextFlow ==
  \/ AdvanceDay
  \/ \E q \in FlowQuotes : saved_quote(q)
  \/ \E j \in FlowJobs : saved_job(j)
  \/ \E quote_id \in {"Q1"}, scheduled_date \in ScheduledDates :
       accept_quote_to_job(quote_id, scheduled_date)
  \/ \E job_id \in JobIds : accept_quote_to_job_save_job(job_id)
  \/ \E job_id \in JobIds, line_items \in LineItemsGiven, due_days \in DueDays :
       complete_job_to_invoice(job_id, line_items, due_days)
  \/ complete_job_to_invoice_update_job

SpecFlow == Init /\ [][NextFlow]_vars

-----------------------------------------------------------------------------
(* Properties of the workflow functions, stated on the files of the directory *)

\* the version files of an id, and the content of the one of highest version
FilesOf(files, id) == {p \in DOMAIN files : p[2] = id}
LatestPath(files, id) ==
  CHOOSE p \in FilesOf(files, id) : \A q \in FilesOf(files, id) : q[3] <= p[3]
LatestFile(files, id) == files[LatestPath(files, id)]

\* the step wrote the one new file p and left every other file as it was
WroteOne(files, after, p) ==
  /\ p \notin DOMAIN files
  /\ DOMAIN after = DOMAIN files \cup {p}
  /\ \A q \in DOMAIN files : after[q] = files[q]

NothingWritten == UNCHANGED <<quote_files, job_files, invoice_files, pc>>

\* the step is one that enters the workflow function op
StartOf(op) == pc.at = "idle" /\ last'.op = op

JobsOfQuote(files, quote_id) == {p \in DOMAIN files : files[p].quote_id = quote_id}
InvoicesOfJob(files, job_id) == {p \in DOMAIN files : files[p].job_id = job_id}

\* C5: accept_quote_to_job raises FileNotFoundError for a quote id with no
\* file, and ValueError naming the status when the latest version is DRAFT,
\* EXPIRED, REJECTED or ACCEPTED; then no quote version and no job is
\* written.  When an accept has written its job, the latest version of the
\* quote is ACCEPTED and the quote has one job more, so that a second accept
\* is refused and adds none.
C5_AcceptRefused ==
  [][/\ \A quote_id \in QuoteIds, scheduled_date \in ScheduledDates :
          (StartOf("accept_quote_to_job") /\ accept_quote_to_job(quote_id, scheduled_date)) =>
            IF FilesOf(quote_files, quote_id) = {}
              THEN last'.result = "FileNotFoundError" /\ NothingWritten
              ELSE LET status == quote_status(
                                   quote_validate_json(LatestFile(quote_files, quote_id)),
                                   today)
                   IN /\ status \in {"draft", "expired", "rejected", "accepted"} =>
                           /\ last'.result = "ValueError"
                           /\ last'.detail = status
                           /\ NothingWritten
                      /\ UNCHANGED job_files
     /\ \A job_id \in JobIds :
          (pc.at = "save_job" /\ accept_quote_to_job_save_job(job_id)) =>
            LET quote_id == pc.quote.quote_id
            IN /\ LatestFile(quote_files', quote_id).date_accepted # None
               /\ Cardinality(JobsOfQuote(job_files', quote_id))
                    = Cardinality(JobsOfQuote(job_files, quote_id)) + 1]_vars

\* a second accept of a quote, refused, with the one job of the first
C5_Witness ==
  /\ last.op = "accept_quote_to_job"
  /\ last.result = "ValueError"
  /\ last.detail = "accepted"
  /\ Cardinality(JobsOfQuote(job_files, "Q1")) = 1
  /\ Cardinality(FilesOf(quote_files, "Q1")) = 2

\* C6: when the latest version of the quote is SENT, accept_quote_to_job
\* first writes one new version of the quote, the latest one with
\* date_accepted = today and so ACCEPTED, and no job; it then writes one new
\* job at version 1 with the quote's quote_id and client_id, date_accepted =
\* today, the scheduled_date given and status SCHEDULED.
C6_AcceptWrites ==
  [][/\ \A quote_id \in QuoteIds, scheduled_date \in ScheduledDates :
          (/\ StartOf("accept_quote_to_job")
           /\ FilesOf(quote_files, quote_id) # {}
           /\ quote_status(quote_validate_json(LatestFile(quote_files, quote_id)), today)
                = "sent"
           /\ accept_quote_to_job(quote_id, scheduled_date)) =>
            LET old == LatestPath(quote_files, quote_id)
                p == <<old[1], quote_id, old[3] + 1>>
            IN /\ WroteOne(quote_files, quote_files', p)
               /\ quote_validate_json(quote_files'[p])
                    = [quote_validate_json(quote_files[old]) EXCEPT !.date_accepted = today]
               /\ quote_files'[p].status = "accepted"
               /\ UNCHANGED <<job_files, invoice_files>>
     /\ \A job_id \in JobIds :
          (pc.at = "save_job" /\ accept_quote_to_job_save_job(job_id)) =>
            \E p \in DOMAIN job_files' :
              /\ WroteOne(job_files, job_files', p)
              /\ p[3] = 1
              /\ job_files'[p].quote_id = pc.quote.quote_id
              /\ job_files'[p].client_id = pc.quote.client_id
              /\ job_files'[p].date_accepted = today
              /\ job_files'[p].scheduled_date = pc.scheduled_date
              /\ job_files'[p].status = "scheduled"
              /\ UNCHANGED <<quote_files, invoice_files>>]_vars

\* C7: complete_job_to_invoice raises FileNotFoundError for a job id with no
\* file, ValueError when the latest version of the job is SCHEDULED,
\* IN_PROGRESS or INVOICED, ValueError when it is COMPLETED with no line_items
\* given and no linked quote, and FileNotFoundError when the linked quote
\* needed has no file; then no invoice and no job version is written.  When
\* the call has written its job version, the latest version of the job is
\* INVOICED and the job has one invoice more, so that a second call is
\* refused and adds none.
C7_InvoiceRefused ==
  [][/\ \A job_id \in JobIds, line_items \in LineItemsGiven, due_days \in DueDays :
          (/\ StartOf("complete_job_to_invoice")
           /\ complete_job_to_invoice(job_id, line_items, due_days)) =>
            IF FilesOf(job_files, job_id) = {}
              THEN last'.result = "FileNotFoundError" /\ NothingWritten
              ELSE LET job == LatestFile(job_files, job_id)
                       completed == job.date_invoiced = None /\ job.date_completed # None
                   IN /\ ~completed => last'.result = "ValueError" /\ NothingWritten
                      /\ (completed /\ line_items = NoneStr /\ job.quote_id = NoneStr) =>
                           last'.result = "ValueError" /\ NothingWritten
                      /\ (/\ completed
                          /\ line_items = NoneStr
                          /\ job.quote_id # NoneStr
                          /\ FilesOf(quote_files, job.quote_id) = {}) =>
                           last'.result = "FileNotFoundError" /\ NothingWritten
                      /\ UNCHANGED <<job_files, quote_files>>
                      /\ Cardinality(InvoicesOfJob(invoice_files', job_id))
                           <= Cardinality(InvoicesOfJob(invoice_files, job_id)) + 1
     /\ (pc.at = "update_job" /\ complete_job_to_invoice_update_job) =>
          /\ LatestFile(job_files', pc.job.job_id).date_invoiced # None
          /\ LatestFile(job_files', pc.job.job_id).status = "invoiced"
          /\ UNCHANGED invoice_files]_vars

\* a second call for a job, refused, with the one invoice of the first
C7_Witness ==
  /\ last.op = "complete_job_to_invoice"
  /\ last.result = "ValueError"
  /\ last.detail = "invoiced"
  /\ Cardinality(InvoicesOfJob(invoice_files, "J1")) = 1
  /\ Cardinality(FilesOf(job_files, "J1")) = 2

\* what C8 says of a call with these arguments, when the latest version of
\* the job is COMPLETED and the line items are there to take
InvoiceWritten(job_id, line_items, due_days) ==
  LET job == LatestFile(job_files, job_id)
      items == IF line_items # NoneStr THEN line_items
               ELSE LatestFile(quote_files, job.quote_id).line_items
  IN \E p \in DOMAIN invoice_files' :
       /\ WroteOne(invoice_files, invoice_files', p)
       /\ invoice_files'[p].job_id = job_id
       /\ invoice_files'[p].client_id = job.client_id
       /\ invoice_files'[p].date_issued = today
       /\ invoice_files'[p].date_due = today + due_days
       /\ invoice_files'[p].line_items = items
       /\ UNCHANGED <<job_files, quote_files>>

Completed(job_id) ==
  /\ FilesOf(job_files, job_id) # {}
  /\ LatestFile(job_files, job_id).date_invoiced = None
  /\ LatestFile(job_files, job_id).date_completed # None

ItemsToTake(job_id, line_items) ==
  \/ line_items # NoneStr
  \/ /\ LatestFile(job_files, job_id).quote_id # NoneStr
     /\ FilesOf(quote_files, LatestFile(job_files, job_id).quote_id) # {}

JobInvoiced ==
  (pc.at = "update_job" /\ complete_job_to_invoice_update_job) =>
    LET old == LatestPath(job_files, pc.job.job_id)
        p == <<old[1], old[2], old[3] + 1>>
    IN /\ WroteOne(job_files, job_files', p)
       /\ job_validate_json(job_files'[p])
            = [job_validate_json(job_files[old]) EXCEPT !.date_invoiced = today]
       /\ job_files'[p].status = "invoiced"
       /\ UNCHANGED <<invoice_files, quote_files>>

\* C8: when the latest version of the job is COMPLETED, complete_job_to_invoice
\* writes one new invoice with the job's job_id and client_id, date_issued =
\* today, date_due = today + due_days and the line items given, or those of
\* the latest version of the linked quote when none is given; it then writes
\* one new version of the job with date_invoiced = today, which is INVOICED.
C8_InvoiceWrites ==
  [][/\ \A job_id \in JobIds, line_items \in LineItemsGiven, due_days \in DueDays :
          (/\ StartOf("complete_job_to_invoice")
           /\ Completed(job_id)
           /\ ItemsToTake(job_id, line_items)
           /\ complete_job_to_invoice(job_id, line_items, due_days)) =>
            InvoiceWritten(job_id, line_items, due_days)
     /\ JobInvoiced]_vars

\* C8 as it holds: the same, for a line_items argument that is not the empty
\* list (Invoice takes no empty list of line items, and nothing is written).
C8_InvoiceWrites_NonEmpty ==
  [][/\ \A job_id \in JobIds, line_items \in LineItemsGiven, due_days \in DueDays :
          (/\ StartOf("complete_job_to_invoice")
           /\ line_items # EmptyList
           /\ Completed(job_id)
           /\ ItemsToTake(job_id, line_items)
           /\ complete_job_to_invoice(job_id, line_items, due_days)) =>
            InvoiceWritten(job_id, line_items, due_days)
     /\ \A job_id \in JobIds, due_days \in DueDays :
          (/\ StartOf("complete_job_to_invoice")
           /\ Completed(job_id)
           /\ complete_job_to_invoice(job_id, EmptyList, due_days)) =>
            last'.result = "ValidationError" /\ NothingWritten
     /\ JobInvoiced]_vars

\* a job invoiced with the line items of its quote, none being given
C8_Witness ==
  /\ last.op = "complete_job_to_invoice"
  /\ last.result = "ok"
  /\ \E p \in DOMAIN invoice_files :
       /\ invoice_files[p].job_id = "J1"
       /\ invoice_files[p].line_items = "L1"
       /\ invoice_files[p].date_issued = today
  /\ LatestFile(job_files, "J1").status = "invoiced"

-----------------------------------------------------------------------------
(* Properties of the registry over its version files *)

MutatingCalls ==
  {"save_client", "save_quote", "save_invoice", "save_job", "update_job",
   "save_transaction", "update_transaction", "delete_transaction",
   "void_transaction", "save_settings"}

\* what the queries on versioned entities return now: key -> value
Stored(mem, objs) == [k \in DOMAIN mem |-> objs[mem[k]]]

\* the in-memory state is the state a fresh registry loads from the directory
MemoryIsDisk ==
  LET l == _load_all_data
  IN /\ clients = l.clients
     /\ transactions = l.transactions
     /\ settings = l.settings
     /\ Stored(quotes, heap) = Stored(l.quotes, l.objs)
     /\ Stored(invoices, heap) = Stored(l.invoices, l.objs)
     /\ Stored(jobs, heap) = Stored(l.jobs, l.objs)
     /\ latest_quotes = l.latest_quotes
     /\ latest_invoices = l.latest_invoices
     /\ latest_jobs = l.latest_jobs

\* C1: after every mutating registry call the in-memory state equals the state
\* a fresh StorageRegistry loads from the directory, so that reload() changes
\* the result of no query.
C1_MemoryEqualsDisk ==
  [][last'.op \in MutatingCalls => MemoryIsDisk']_vars

Upto(n) == [i \in 1..n |-> i]

VersionsAreSaveCounts ==
  /\ \A id \in QuoteIds : get_quote_versions(id) = Upto(SaveCount("quote", id))
  /\ \A id \in InvoiceIds : get_invoice_versions(id) = Upto(SaveCount("invoice", id))
  /\ \A id \in JobIds : get_job_versions(id) = Upto(SaveCount("job", id))

NoFileOverwritten(files) ==
  \A p \in DOMAIN files : p \in DOMAIN files' /\ files'[p] = files[p]

\* C2: after N saves of one id, whether or not a reload or a fresh registry
\* came between them, get_quote_versions / get_invoice_versions /
\* get_job_versions return [1, ..., N], and no step overwrites or removes a
\* version file that exists.
C2_VersionsConsecutive ==
  [][/\ VersionsAreSaveCounts'
     /\ NoFileOverwritten(quote_files)
     /\ NoFileOverwritten(invoice_files)
     /\ NoFileOverwritten(job_files)]_vars

\* two versions of Q1 saved into the directories of two financial years, as
\* two objects
C2_Witness ==
  /\ last.op = "save_quote"
  /\ get_quote_versions("Q1") = <<1, 2>>
  /\ quotes[<<"Q1", 1>>] # quotes[<<"Q1", 2>>]
  /\ \E p, q \in DOMAIN quote_files : p[1] # q[1]

RegistryCalls ==
  {"save_quote", "save_invoice", "save_job", "update_job",
   "get_quote", "get_invoice", "get_job"}

\* version k of an id is found exactly when k saves were made, is the value
\* the k-th save was given, and its file holds that value; no version asked
\* for is the latest
VersionsAsSaved(kind, ids, mem, latest, files) ==
  \A id \in ids :
    /\ \A k \in Versions :
         <<id, k>> \in DOMAIN mem <=> k <= SaveCount(kind, id)
    /\ id \in DOMAIN latest <=> SaveCount(kind, id) > 0
    /\ \A k \in 1..SaveCount(kind, id) :
         /\ heap[mem[<<id, k>>]] = history[<<kind, id, k>>]
         /\ \E p \in DOMAIN files :
              /\ _parse_versioned_filename(p) = <<id, k>>
              /\ model_validate_json(kind, files[p]) = history[<<kind, id, k>>]
    /\ SaveCount(kind, id) > 0 => latest[id] = SaveCount(kind, id)

\* C3: when a registry call returns, get_quote(id, version=k) is the value the
\* k-th save_quote of that id was given, as it was at that call, and so is the
\* content of its file; without a version it is the value of the last save;
\* an id or version never saved is not found.  The same for invoices and jobs.
C3_VersionAsSaved ==
  last.op \in RegistryCalls =>
    /\ VersionsAsSaved("quote", QuoteIds, quotes, latest_quotes, quote_files)
    /\ VersionsAsSaved("invoice", InvoiceIds, invoices, latest_invoices, invoice_files)
    /\ VersionsAsSaved("job", JobIds, jobs, latest_jobs, job_files)

-----------------------------------------------------------------------------
(* Importing a bank statement.  A statement is the list of rows parse_csv    *)
(* returns; the registry is the one import_bank_statement constructs over    *)
(* the data directory.                                                       *)

MaxRows == 2         \* rows of a statement

\* a row in each financial year, with no amount and with money leaving the bank
StatementRows ==
  [date : {2, 3}, description : {<<"d1">>}, debit : BankAmounts, credit : {0}]
Statements == Lists(StatementRows, MaxRows)

\* the ids generate_transaction_id gives in one call of import_bank_statement
GeneratedIds == {<<"T1", "T2">>, <<"T2", "T1">>}

\* the line_number parse_csv gives row n of the statement: the header is line 1
line_number(n) == n + 1

BankTransaction(date, description, debit, credit) ==
  [date |-> date, description |-> description, debit |-> debit, credit |-> credit]

\* is_duplicate: a row of the existing statements has the date, the description
\* and the amount of txn
is_duplicate(txn, existing_statements) ==
  \E s \in DOMAIN existing_statements :
    \E k \in DOMAIN existing_statements[s] :
      LET existing_txn == existing_statements[s][k] IN
      /\ existing_txn.date = txn.date
      /\ existing_txn.description = txn.description
      /\ bank_amount(existing_txn) = bank_amount(txn)

\* the entries whose account is the bank account
bank_entries(txn, bank_account_code) ==
  SelectSeq(txn.entries, LAMBDA e : e.account_code = bank_account_code)

\* the rows import_bank_statement rebuilds from the stored transactions
RECURSIVE reconstructed(_, _)
reconstructed(existing_txns, bank_account_code) ==
  IF existing_txns = <<>> THEN <<>>
  ELSE LET txn == Head(existing_txns)
           rest == reconstructed(Tail(existing_txns), bank_account_code)
       IN IF txn.import_match_account # bank_account_code THEN rest
          ELSE IF bank_entries(txn, bank_account_code) = <<>> THEN rest
          ELSE LET bank_entry == Head(bank_entries(txn, bank_account_code))
               IN IF bank_entry.debit > 0
                    THEN <<BankTransaction(txn.date, txn.description, 0, bank_entry.debit)>>
                           \o rest
                    ELSE <<BankTransaction(txn.date, txn.description, bank_entry.credit, 0)>>
                           \o rest

\* the financial years whose transactions the import compares with
years_checked(statement) == {get_financial_year(statement[1].date)}

\* existing_statements of import_bank_statement, from the registry's transactions
existing_statements_of(statement, txns, bank_account_code) ==
  IF statement = <<>> THEN <<>>
  ELSE LET existing_txns ==
             SelectSeq(DictValues(txns),
                       LAMBDA t : get_financial_year(t.date) \in years_checked(statement))
           bank_txns == reconstructed(existing_txns, bank_account_code)
       IN IF bank_txns = <<>> THEN <<>> ELSE <<bank_txns>>

\* the loop of import_bank_statement from row n on: the registry's transactions,
\* the year files and the counts when it returns or when save_transaction raises
RECURSIVE import_rows(_, _, _, _, _, _)
import_rows(statement, n, existing_statements, bank_account_code, ids, acc) ==
  IF n > Len(statement) THEN acc
  ELSE LET bank_txn == statement[n] IN
       IF is_duplicate(bank_txn, existing_statements)
         THEN import_rows(statement, n + 1, existing_statements, bank_account_code, ids,
                          [acc EXCEPT !.duplicates = @ + 1])
         ELSE LET accounting_txn ==
                    convert_to_transaction(bank_txn, line_number(n), bank_account_code, ids[n],
                                           "s.csv", today)
              IN IF DictHas(acc.transactions, txn_key(accounting_txn))
                   THEN [acc EXCEPT !.raised = "ValueError"]
                   ELSE import_rows(
                          statement, n + 1, existing_statements, bank_account_code, ids,
                          [acc EXCEPT
                             !.transactions = DictSet(@, txn_key(accounting_txn),
                                                      accounting_txn),
                             !.txn_files[_get_transaction_file(accounting_txn.date)] =
                                Append(@, txn_dump_json(accounting_txn)),
                             !.imported = @ + 1])

\* import_bank_statement: a new registry over the data directory, the existing
\* rows of the bank account, then the loop over the statement's rows
import_bank_statement(statement, bank_account_code, ids) ==
  /\ pc.at = "idle"
  /\ \E l \in {_load_all_data} :
     \E r \in {import_rows(statement, 1,
                           existing_statements_of(statement, l.transactions,
                                                  bank_account_code),
                           bank_account_code, ids,
                           [transactions |-> l.transactions, txn_files |-> l.txn_files,
                            imported |-> 0, duplicates |-> 0, raised |-> NoneStr])} :
        /\ Len(l.clients_file) + CountLines(r.txn_files, FYs) <= MaxLines
        /\ clients' = l.clients
        /\ clients_file' = l.clients_file
        /\ transactions' = r.transactions
        /\ txn_files' = r.txn_files
        /\ quotes' = l.quotes
        /\ invoices' = l.invoices
        /\ jobs' = l.jobs
        /\ latest_quotes' = l.latest_quotes
        /\ latest_invoices' = l.latest_invoices
        /\ latest_jobs' = l.latest_jobs
        /\ settings' = l.settings
        /\ heap' = l.objs
        /\ handles' = [v \in DOMAIN handles |-> NoRef]
        /\ last' = [op |-> "import_bank_statement",
                    result |-> IF r.raised # NoneStr THEN r.raised ELSE "ok",
                    dropped |-> 0, detail |-> NoneStr,
                    statement |-> statement, bank_account_code |-> bank_account_code,
                    imported |-> r.imported, duplicates |-> r.duplicates]
  /\ UNCHANGED <<today, quote_files, invoice_files, job_files, settings_file, config_settings_file, rules_file,
                 history, pc>>

BankAccountCodes == {"BANK"}

NextImport ==
  \/ \E statement \in Statements, bank_account_code \in BankAccountCodes,
        ids \in GeneratedIds :
       import_bank_statement(statement, bank_account_code, ids)

SpecImport == Init /\ [][NextImport]_vars

\* the call that follows a completed import of the same statement for the same
\* bank account
SecondImport ==
  /\ last.op = "import_bank_statement"
  /\ last.result = "ok"
  /\ last'.op = "import_bank_statement"
  /\ last'.statement = last.statement
  /\ last'.bank_account_code = last.bank_account_code

\* C22: importing the same statement a second time imports nothing: imported is
\* 0, duplicates is the number of rows, and the stored transactions are unchanged
C22_SecondImportImportsNothing ==
  [][SecondImport =>
       /\ last'.result = "ok"
       /\ last'.imported = 0
       /\ last'.duplicates = Len(last.statement)
       /\ Items(transactions') = Items(transactions)
       /\ txn_files' = txn_files]_vars

-----------------------------------------------------------------------------
(* Initialising a business directory and the registry's settings.  The data  *)
(* directory of the registry is the business directory init_business makes.  *)

\* business_dir.exists() and any(business_dir.iterdir())
business_dir_has_content ==
  \/ clients_file # <<>>
  \/ \E fy \in FYs : txn_files[fy] # <<>>
  \/ DOMAIN quote_files # {} \/ DOMAIN invoice_files # {} \/ DOMAIN job_files # {}
  \/ settings_file # NoneStr
  \/ config_settings_file # NoneStr

\* init_business: the directory structure and config/settings.json
init_business(business_settings) ==
  /\ pc.at = "idle"
  /\ IF business_dir_has_content
       THEN /\ Called("init_business", "FileExistsError")
            /\ UNCHANGED config_settings_file
       ELSE /\ config_settings_file' = business_settings
            /\ Called("init_business", "ok")
  /\ UNCHANGED <<today, clients_file, txn_files, quote_files, invoice_files, job_files,
                 settings_file, rules_file, memory, heap, handles, history, pc>>

\* registry.settings_exist() and registry.get_settings(): what the call returned
\* or raised
call_settings_exist ==
  /\ pc.at = "idle"
  /\ last' = [op |-> "settings_exist", result |-> "ok", dropped |-> 0, detail |-> NoneStr,
              value |-> settings_exist]
  /\ UNCHANGED <<today, disk, memory, heap, handles, history, pc>>

call_get_settings ==
  /\ pc.at = "idle"
  /\ last' = [op |-> "get_settings",
              result |-> IF get_settings = "FileNotFoundError"
                           THEN "FileNotFoundError" ELSE "ok",
              dropped |-> 0, detail |-> NoneStr, value |-> get_settings]
  /\ UNCHANGED <<today, disk, memory, heap, handles, history, pc>>

NextSettings ==
  \/ \E business_settings \in SettingsValues : init_business(business_settings)
  \/ \E s \in SettingsValues : save_settings(s)
  \/ new_registry
  \/ call_settings_exist
  \/ call_get_settings
  \/ AdvanceDay

SpecSettings == Init /\ [][NextSettings]_vars

\* the registry was constructed over the directory as it is now
RegistryOverDirectory ==
  /\ last.op \in {"settings_exist", "get_settings"}
  /\ settings = _load_settings(NoneStr, settings_file)

\* C23: the registry keeps Settings in config/settings.json, the file
\* init_business writes: over an initialised directory settings_exist() is true
\* and get_settings() returns the settings init_business was given, and
\* get_settings raises FileNotFoundError only when no settings were ever written
C23_RegistryReadsInitSettings ==
  RegistryOverDirectory =>
    /\ (config_settings_file # NoneStr /\ last.op = "settings_exist") => last.value = TRUE
    /\ (config_settings_file # NoneStr /\ last.op = "get_settings")
         => last.value = config_settings_file
    /\ (last.op = "get_settings" /\ last.result = "FileNotFoundError")
         => (config_settings_file = NoneStr /\ settings_file = NoneStr)

-----------------------------------------------------------------------------
(* The life of a stored quote, invoice and job: the first version is saved,  *)
(* later versions are copies of the latest one with a date field set that    *)
(* was not set to today, and today advances                                  *)

DateFields ==
  [quote |-> {"date_sent", "date_accepted", "date_rejected"},
   invoice |-> {"date_issued", "date_paid", "date_cancelled"},
   job |-> {"date_started", "date_completed", "date_invoiced"}]

\* whether the registry holds the entity, and its latest version
stored(var) ==
  IF var = "quote" THEN has_quote("Q1", None)
  ELSE IF var = "invoice" THEN has_invoice("I1", None)
  ELSE has_job("J1", None)

latest_version(var) ==
  IF var = "quote" THEN get_quote("Q1", None)
  ELSE IF var = "invoice" THEN get_invoice("I1", None)
  ELSE get_job("J1", None)

\* the status of an entity on the day now
status_of(var, x, now) ==
  IF var = "quote" THEN quote_status(x, now)
  ELSE IF var = "invoice" THEN invoice_status(x, now)
  ELSE job_status(x)

\* x = latest.model_copy(update={field: d}) for a date field that is not set
model_copy(var, field, d) ==
  /\ stored(var)
  /\ latest_version(var)[field] = None
  /\ construct(var, [latest_version(var) EXCEPT ![field] = d])

\* the first version of an entity, built by the caller
first_version(var, obj) ==
  /\ ~stored(var)
  /\ construct(var, obj)

NextLifecycle ==
  \/ AdvanceDay
  \/ \E date_valid_until \in {1, 2}, date_accepted \in {None, 1}, date_rejected \in {None, 1} :
       first_version("quote", [Quote("Q1", <<"a", "b">>, 1, date_valid_until, "L1")
                                 EXCEPT !.date_accepted = date_accepted,
                                        !.date_rejected = date_rejected])
  \/ \E date_due \in {2}, date_paid \in {None, 1}, date_cancelled \in {None, 1} :
       first_version("invoice",
                     [Invoice("I1", NoneStr, <<"a", "b">>, 1, 1, date_due, "L1")
                        EXCEPT !.date_paid = date_paid, !.date_cancelled = date_cancelled])
  \/ \E date_invoiced \in {None, 1} :
       first_version("job", [Job("J1", NoneStr, <<"a", "b">>, 1, None)
                               EXCEPT !.date_invoiced = date_invoiced])
  \/ \E var \in DOMAIN DateFields :
       \E field \in DateFields[var] : model_copy(var, field, today)
  \/ save_quote
  \/ save_invoice
  \/ save_job

SpecLifecycle == Init /\ [][NextLifecycle]_vars

\* the status of the latest version of the entity before and after the step
StatusNow(var) == status_of(var, latest_version(var), today)
HasStatus(var, statuses) == stored(var) /\ StatusNow(var) \in statuses
KeepsStatus(var) == StatusNow(var)' = StatusNow(var)
\* the step saves a version in which the date field, unset before, is set
NewlySet(var, field) ==
  latest_version(var)[field] = None /\ latest_version(var)'[field] # None

\* C24 as stated: the statuses ACCEPTED, REJECTED and EXPIRED of a quote,
\* INVOICED of a job, PAID and CANCELLED of an invoice are never left
C24_TerminalAbsorbing ==
  [][/\ HasStatus("quote", {"accepted", "rejected", "expired"}) => KeepsStatus("quote")
     /\ HasStatus("job", {"invoiced"}) => KeepsStatus("job")
     /\ HasStatus("invoice", {"paid", "cancelled"}) => KeepsStatus("invoice")]_vars

\* C24 (amended): ACCEPTED of a quote, INVOICED of a job and CANCELLED of an
\* invoice are never left; REJECTED is left only for ACCEPTED by a version that
\* sets date_accepted, EXPIRED only by a version that sets date_accepted or
\* date_rejected, PAID only for CANCELLED by a version that sets date_cancelled
C24_AbsorbingUnlessOverridden ==
  [][/\ HasStatus("quote", {"accepted"}) => KeepsStatus("quote")
     /\ HasStatus("job", {"invoiced"}) => KeepsStatus("job")
     /\ HasStatus("invoice", {"cancelled"}) => KeepsStatus("invoice")
     /\ HasStatus("quote", {"rejected"}) =>
          \/ KeepsStatus("quote")
          \/ StatusNow("quote")' = "accepted" /\ NewlySet("quote", "date_accepted")
     /\ HasStatus("quote", {"expired"}) =>
          \/ KeepsStatus("quote")
          \/ StatusNow("quote")' = "accepted" /\ NewlySet("quote", "date_accepted")
          \/ StatusNow("quote")' = "rejected" /\ NewlySet("quote", "date_rejected")
     /\ HasStatus("invoice", {"paid"}) =>
          \/ KeepsStatus("invoice")
          \/ StatusNow("invoice")' = "cancelled" /\ NewlySet("invoice", "date_cancelled")]_vars

\* an accepted quote of which a later version with date_rejected set was saved
C24_Witness ==
  /\ last.op = "save_quote"
  /\ stored("quote")
  /\ latest_quotes["Q1"] = 2
  /\ get_quote("Q1", 1).date_accepted # None
  /\ get_quote("Q1", 2).date_rejected # None
  /\ StatusNow("quote") = "accepted"

-----------------------------------------------------------------------------
(* The workflow functions when the process may stop between their two writes *)

\* the process stops after the first write of a workflow function: its locals
\* are lost and the files stay as they are
process_stops ==
  /\ pc.at \in {"save_job", "update_job"}
  /\ pc' = [at |-> "idle"]
  /\ Called(IF pc.at = "save_job" THEN "accept_quote_to_job" ELSE "complete_job_to_invoice",
            "stopped")
  /\ UNCHANGED <<today, disk, memory, heap, handles, history>>

\* the jobs the application saves itself: they are linked to no quote
StandaloneJobs == {j \in FlowJobs : j.quote_id = NoneStr}

NextCrash ==
  \/ AdvanceDay
  \/ \E q \in FlowQuotes : DOMAIN quote_files = {} /\ saved_quote(q)
  \/ \E j \in StandaloneJobs : DOMAIN job_files = {} /\ saved_job(j)
  \/ \E quote_id \in {"Q1"}, scheduled_date \in ScheduledDates :
       accept_quote_to_job(quote_id, scheduled_date)
  \/ \E job_id \in JobIds : accept_quote_to_job_save_job(job_id)
  \/ \E job_id \in JobIds, line_items \in LineItemsGiven, due_days \in DueDays :
       complete_job_to_invoice(job_id, line_items, due_days)
  \/ complete_job_to_invoice_update_job
  \/ process_stops

SpecCrash == Init /\ [][NextCrash]_vars

\* the latest version of the quote on disk is ACCEPTED
LatestAcceptedIn(files, now, quote_id) ==
  /\ FilesOf(files, quote_id) # {}
  /\ quote_status(quote_validate_json(LatestFile(files, quote_id)), now) = "accepted"
LatestAccepted(quote_id) == LatestAcceptedIn(quote_files, today, quote_id)

\* some version of the quote on disk has date_accepted set
SomeVersionAccepted(files, quote_id) ==
  \E p \in FilesOf(files, quote_id) : files[p].date_accepted # None

\* C25: a stop of accept_quote_to_job between its two writes leaves the quote's
\* latest version ACCEPTED and no job linked to the quote; no job is ever left
\* without an accepted version of its quote; and a later accept_quote_to_job
\* for that quote raises ValueError and writes no job
C25_StopBetweenWrites ==
  [][/\ (pc.at = "save_job" /\ pc'.at = "idle" /\ last'.result = "stopped") =>
          /\ LatestAcceptedIn(quote_files', today', pc.quote.quote_id)
          /\ JobsOfQuote(job_files', pc.quote.quote_id) = {}
     /\ \A p \in DOMAIN job_files' :
          job_files'[p].quote_id # NoneStr
            => SomeVersionAccepted(quote_files', job_files'[p].quote_id)
     /\ (StartOf("accept_quote_to_job") /\ LatestAccepted("Q1")
           /\ JobsOfQuote(job_files, "Q1") = {}) =>
          /\ last'.result = "ValueError"
          /\ last'.detail = "accepted"
          /\ pc'.at = "idle"
          /\ UNCHANGED <<quote_files, job_files>>]_vars

\* accept_quote_to_job was called again after a stop had left the quote accepted
\* with no job
C25_Witness ==
  /\ last.op = "accept_quote_to_job"
  /\ last.result = "ValueError"
  /\ last.detail = "accepted"
  /\ LatestAccepted("Q1")
  /\ JobsOfQuote(job_files, "Q1") = {}

\* C26: at most one stored job references a quote_id and at most one stored
\* invoice references a job_id
C26_OnePerReference ==
  /\ \A quote_id \in QuoteIds :
       Cardinality({p[2] : p \in JobsOfQuote(job_files, quote_id)}) <= 1
  /\ \A job_id \in JobIds :
       Cardinality({p[2] : p \in InvoicesOfJob(invoice_files, job_id)}) <= 1

-----------------------------------------------------------------------------
(* Importing a statement again after its transactions were classified and    *)
(* written back.  The statements have one row, with money leaving the bank.  *)

ClassifiableStatements == {<<r>> : r \in {x \in StatementRows : x.debit > 0}}

NextReimport ==
  \/ \E statement \in ClassifiableStatements, bank_account_code \in BankAccountCodes,
        ids \in GeneratedIds :
       import_bank_statement(statement, bank_account_code, ids)
  \/ \E transaction \in Range(get_all_transactions), rules \in LedgerRuleLists,
        review \in LedgerReviews :
       classify_and_save(transaction, rules, review[1], review[2], review[3])

SpecReimport == Init /\ [][NextReimport]_vars

\* a stored transaction was made from the row of the bank account: it has the
\* row's date and description, and its entry on the bank account has the
\* row's amount
StoredFrom(bank_txn, bank_account_code) ==
  {e[2] : e \in {x \in LoadedTransactions(txn_files) :
                   /\ x[2].date = bank_txn.date
                   /\ x[2].description = bank_txn.description
                   /\ \E n \in DOMAIN x[2].entries :
                        /\ x[2].entries[n].account_code = bank_account_code
                        /\ x[2].entries[n].debit - x[2].entries[n].credit
                             = bank_amount(bank_txn)}}

\* C27: a bank row that was imported once is never imported again for the
\* same bank account code, also after its transaction was classified and
\* written back: the import of a statement whose rows are all stored imports
\* nothing
C27_NeverImportedAgain ==
  [][(/\ last'.op = "import_bank_statement"
      /\ pc.at = "idle"
      /\ \A n \in DOMAIN last'.statement :
           StoredFrom(last'.statement[n], last'.bank_account_code) # {})
       => /\ last'.imported = 0
          /\ txn_files' = txn_files]_vars

-----------------------------------------------------------------------------
(* What a classification leaves of the transaction it is given *)

\* the classified transaction the last call returned, if it returned one from
\* apply_classification or from a manual branch of classify_and_review
Classified ==
  IF last.op = "apply_classification" THEN <<last.value>>
  ELSE IF /\ last.op = "classify_and_review"
          /\ last.result = "ok"
          /\ last.value.decision \in {"MANUAL", "REJECTED"}
    THEN last.value.classified_transaction
    ELSE <<>>

SameButAccountCodes(t, c) ==
  /\ c.transaction_id = t.transaction_id
  /\ c.date = t.date
  /\ c.description = t.description
  /\ c.gst_inclusive = t.gst_inclusive
  /\ c.notes = t.notes
  /\ c.receipt_path = t.receipt_path
  /\ \A f \in DOMAIN import_metadata_unset : c[f] = t[f]
  /\ Len(c.entries) = Len(t.entries)
  /\ \A n \in DOMAIN t.entries :
       /\ c.entries[n].debit = t.entries[n].debit
       /\ c.entries[n].credit = t.entries[n].credit
       /\ ~has_marker(t.entries[n].account_code)
            => c.entries[n].account_code = t.entries[n].account_code

\* C28: the classified transaction has the transaction_id, date, description,
\* GST flag, notes, receipt reference and import traceability fields of the
\* input, as many entries with the same amounts in the same order, and the
\* account codes of the entries that were not marked
C28_OnlyAccountCodesChange ==
  Classified # <<>> => SameButAccountCodes(last.transaction, Classified[1])

-----------------------------------------------------------------------------
(* A learned rule against the description it was learned from *)

MaxDescription == 3   \* characters in a description a rule is learned from

\* a letter in each case, a digit, a blank and an opening parenthesis
LearnChars == {"A", "b", "1", " ", "("}
LearnDescriptions == {d \in Lists(LearnChars, MaxDescription) : Len(d) >= 1}

\* learn_rule(transaction, account_code, "r", True) of a transaction with the
\* description given
call_learn_rule(description, account_code) ==
  /\ pc.at = "idle"
  /\ LET transaction == new_transaction("T1", 2, description,
                          <<JournalEntry("EXP-UNCLASSIFIED", 1, 0), JournalEntry("BANK", 0, 1)>>)
         learned == learn_rule(transaction, account_code, "r", TRUE)
     IN last' = [op |-> "learn_rule",
                 result |-> IF learned.raised = NoneStr THEN "ok" ELSE learned.raised,
                 dropped |-> 0, detail |-> NoneStr,
                 transaction |-> transaction, value |-> learned.rule]
  /\ UNCHANGED <<today, disk, memory, heap, handles, history, pc>>

\* match_pattern(transaction.description, rule) of the rule learn_rule has
\* just returned and the transaction it was learned from
call_match_pattern ==
  /\ pc.at = "idle"
  /\ last.op = "learn_rule"
  /\ last.value # <<>>
  /\ LET rule == last.value[1]
         description == last.transaction.description
     IN last' = [op |-> "match_pattern",
                 result |-> IF pattern_compiles(rule.pattern) THEN "ok" ELSE "re.error",
                 dropped |-> 0, detail |-> NoneStr,
                 description |-> description, rule |-> rule,
                 value |-> IF pattern_compiles(rule.pattern)
                             THEN match_pattern(description, rule) ELSE <<>>]
  /\ UNCHANGED <<today, disk, memory, heap, handles, history, pc>>

NextLearn ==
  \/ \E description \in LearnDescriptions, account_code \in RuleAccounts :
       call_learn_rule(description, account_code)
  \/ call_match_pattern

SpecLearn == Init /\ [][NextLearn]_vars

\* C29: the rule learn_rule returns for a description matches that description
\* under match_pattern
C29_LearnedRuleMatches ==
  last.op = "match_pattern" => last.result = "ok" /\ last.value # <<>>

-----------------------------------------------------------------------------
(* The version field of a stored quote or invoice *)

\* every version in memory and every version file records, in its own version
\* field, the version number it is stored under
VersionFieldIsKey(kind, mem, files) ==
  /\ \A key \in DOMAIN mem : heap[mem[key]].version = key[2]
  /\ \A p \in DOMAIN files :
       model_validate_json(kind, files[p]).version = _parse_versioned_filename(p)[2]

\* C30: for every saved quote id and every k in get_quote_versions(id),
\* get_quote(id, version=k).version is k and the file {id}_v{k}.json records
\* version k; likewise for invoices
C30_VersionFieldIsRegistryVersion ==
  /\ VersionFieldIsKey("quote", quotes, quote_files)
  /\ VersionFieldIsKey("invoice", invoices, invoice_files)

====
